---- MODULE Spec2Model ----
(***************************************************************************)
(* Model of the batch-loop orchestrator of the web-form automation         *)
(* (EnhancedAutomationSystem, basic mode) together with the GUI thread     *)
(* that starts it, authorizes form input, changes its settings and stops   *)
(* it.  The worker thread runs run_automation(); every blocking call it    *)
(* makes (a browser command or a sleep) is a control point `pc`, and an    *)
(* action is the return of that call followed by the code up to the next   *)
(* blocking call.  The UI thread's handlers are atomic actions.            *)
(***************************************************************************)
EXTENDS Integers, Sequences, FiniteSets, TLC

\* ---- bounds of the model ----
MaxBatches == 2          \* largest number of batches a loaded data set yields
MaxRetriesBound == 1     \* largest max_retries the settings dialog applies
MaxRows == 25            \* largest number of rows of a loaded CSV
MaxSets == 2             \* largest number of sets of a batch handed to the filler
MaxCsvValue == 3         \* cell values of a batch range over 0..MaxCsvValue
MaxSteps == 2            \* largest number of steps of an action sequence
MaxLoopBatches == 4      \* largest number of batches of the other batch loops
MaxInvocations == 3      \* largest number of runs started from one GUI
MaxElements == 2         \* most elements clicked for one link xpath
MaxPopupElements == 1    \* most elements one close selector matches
MaxPlayActions == 2      \* most actions of a replayed sequence
MaxRetryCount == 2       \* largest retry_count of an action

\* ---- program constants ----
DefaultMaxRetries == 3   \* self.max_retries = 3
NavigationBudget == 30   \* max_navigation_time = 30
ClickWait == 3           \* time.sleep(3) after a click, back() and get()
VotingPageLinks == 10    \* len(voting_page_links)
VotingPagePolls == 60    \* max_attempts = 60
AuthorizationPolls == 300 \* max_wait = 300
DefaultBatchSize == 10   \* Config.MAX_SETS_PER_BATCH = 10
BatchSpinFrom == 1       \* Spinbox(from_=1, to=20) of the batch size
BatchSpinTo == 20
MAX_GAMES_PER_SET == 13  \* Config.MAX_GAMES_PER_SET = 13
Rejected == -1           \* no page value: the else branch of the conversion
DiagnosedGames == 5      \* for game_index in range(min(13, 5))
DiagnosedSets == 3       \* for set_index in range(min(10, 3))
BudgetTicks == 5         \* budget_sec = 2.5, in half seconds
AlertWaitTicks == 10     \* WebDriverWait(self.driver, 5), in half seconds
NumSelectors == 14       \* selectors: List[str] = [...] of close_unexpected_popups
QuickIframes == 3        \* close_unexpected_popups(max_iframes=3)

VARIABLES
  \* EnhancedAutomationSystem fields
  max_retries, error_recovery_enabled, current_batch, total_batches,
  form_input_ready, voting_page_reached, batch_data, csvBatches, stats, driver,
  \* frame of the worker thread
  pc, retry_count, batch_success, polls, ret,
  \* GUI fields
  is_running, afterQueue, uiStatus,
  \* history of the run (observation only)
  attempts, marked, ops, stopSeen, loopFinished, settingsStable, acc,
  \* DataHandler.data, Config.MAX_SETS_PER_BATCH and the frame of
  \* split_data_into_batches
  data, MAX_SETS_PER_BATCH, batch_size, batches, split_i, splitPc,
  \* frame of FormFiller.fill_voting_form and of _click_checkbox
  num_sets, game_index, set_index, csv_value, vote_value, checkbox_name,
  fill_result, fillPc, cellFailed,
  \* whether the fill left out a set of the batch at the break of its set loop
  sets_skipped,
  \* the site of the program that generated checkbox_name
  nameSite,
  \* a command-line entry point: its arguments, its position, the result of
  \* the run and the exit status of the process
  entry, cli_mode, csv_arg, actions_arg, cliPc, success, exit_code,
  \* an ActionSequence in memory, its dictionary form, the action file and
  \* the sequence restored from either
  actions, sequence_dict, dictMade, file_content, file_exists, restored,
  restoredFrom,
  \* the browser during a batch cycle: the page it shows, an open alert, the
  \* state of the cycle, the position inside submit_form, the page the
  \* confirmation landed on, and the answer of the browser call in progress
  page, alert_open, phase, submitPc, landed, call_result, served,
  \* the batch and the attempt whose cart-add click put the batch in the cart
  addedIn,
  \* whether the last recovery tried to navigate
  nav_attempted,
  \* one of the other batch loops: which loop, its batches, the index of the
  \* for loop, the batches processed so far, its counters and its result
  loop_kind, loop_batches, batch_index, processed, loop_stats, loop_ret, loopPc,
  \* an orchestrator instance the GUI keeps: its counters, the number of the
  \* invocation of the batch loop on it, that invocation's batches, position,
  \* own successes and result
  processing_stats, invocation, inv_batches, inv_index, inv_successes, inv_ret,
  invPc,
  \* the navigation back from the cart page inside submit_form: the session,
  \* the answer of the dialog handling, the position in the procedure, the
  \* link xpath and the clicks on its elements, the seconds since start_time,
  \* the page shown, the result, and what the procedure did so far
  browser, dialog, navPc, link_index, clicks, elapsed, nav_page, nav_result,
  started, reached_by, last_start, found_dead, nav_for,
  \* a lower-level routine called by the batch loop: which one, the step it
  \* is at, the exceptions its inner handlers caught, why it ended, what it
  \* answers and what its caller received
  routine, step_at, swallowed, cause, answer, caller_got,
  \* the process-all-batches mode of the GUI: its flag, index and selection,
  \* form_input_ready of the automation system it holds, the pending call of
  \* check_current_batch_completion, the batches handed over, the completion
  \* report, the worker thread, the runs started and is_running
  processing_all_batches, current_batch_index, selected_count, sys_ready, check_timer, handed, completion_reported, gui_worker, runs, gui_running,
  \* one call of run_automation: the mode, the position, the step of the mode
  \* function, how the try block was left, WebDriverManager.driver, the calls
  \* of driver.quit() and what the caller gets
  run_mode, run_pc, run_step, run_exit, run_driver, quit_calls, run_ret,
  \* FormFiller._click_checkbox for one cell: what the page answers to each
  \* lookup, the lookups and click methods made so far and the results
  cb_pc, dom_name, dom_css, dom_similar, cb_selected, lookups, checkbox, diagnosed, click_methods, click_success, cell_result,
  \* FormFiller._dismiss_popups_and_overlays_quick: position, half seconds
  \* since close_unexpected_popups took its start time, the page, the loop
  \* indices, the count returned and the dismissals begun over the budget
  pop_pc, pop_elapsed, alert_present, frames, frame_i, in_frame, sel_i,
  elems_left, popups_handled, late_actions,
  \* ActionPlayer.execute_action_sequence: the actions replayed, position, index
  \* of the action, calls of _perform_action for it, the result of
  \* _execute_single_action, the results so far, the statistics, the return
  play_actions, play_pc, play_i, tries, single_success, results, execution_stats, play_ret,
  \* the round selectors: position and entry point of the run, its batches,
  \* whether automation_system.round_selector holds a selected round, the
  \* selector of the GUI (None, the same object or one of its own) and its
  \* round, a round link click refused for want of a round, the runs made
  rs_pc, rs_entry, rs_total, rs_batch, system_round, gui_round_selector, gui_round, round_link_refused, rs_runs


sysVars  == <<max_retries, error_recovery_enabled, current_batch, total_batches,
              form_input_ready, voting_page_reached, batch_data, csvBatches,
              stats, driver>>
wrkVars  == <<pc, retry_count, batch_success, polls, ret>>
guiVars  == <<is_running, afterQueue, uiStatus>>
histVars == <<attempts, marked, ops, stopSeen, loopFinished, settingsStable, acc>>
splitVars == <<data, MAX_SETS_PER_BATCH, batch_size, batches, split_i, splitPc>>
\* state of the library functions, which the orchestrator model leaves alone
fillVars == <<num_sets, game_index, set_index, csv_value, vote_value,
              checkbox_name, fill_result, fillPc, cellFailed,
                 sets_skipped>>
cliVars  == <<entry, cli_mode, csv_arg, actions_arg, cliPc, success, exit_code>>
\* the groups added after the splitter, the filler and the name generators
seqVars  == <<actions, sequence_dict, dictMade, file_content, file_exists,
              restored, restoredFrom>>
cycleVars == <<page, alert_open, phase, submitPc, landed, call_result, served,
               addedIn, nav_attempted>>
loopVars == <<loop_kind, loop_batches, batch_index, processed, loop_stats,
              loop_ret, loopPc>>
reuseVars == <<processing_stats, invocation, inv_batches, inv_index,
               inv_successes, inv_ret, invPc>>
navVars == <<browser, dialog, navPc, link_index, clicks, elapsed, nav_page,
             nav_result, started, reached_by, last_start, found_dead, nav_for>>
routinesVars == <<routine, step_at, swallowed, cause, answer, caller_got>>
allVars == <<processing_all_batches, current_batch_index, selected_count, sys_ready, check_timer, handed, completion_reported, gui_worker, runs, gui_running>>
runVars == <<run_mode, run_pc, run_step, run_exit, run_driver, quit_calls, run_ret>>
clickVars == <<cb_pc, dom_name, dom_css, dom_similar, cb_selected, lookups,
              checkbox, diagnosed, click_methods, click_success, cell_result>>
popupVars == <<pop_pc, pop_elapsed, alert_present, frames, frame_i, in_frame,
              sel_i, elems_left, popups_handled, late_actions>>
playVars == <<play_actions, play_pc, play_i, tries, single_success, results,
             execution_stats, play_ret>>
roundVars == <<rs_pc, rs_entry, rs_total, rs_batch, system_round,
              gui_round_selector, gui_round, round_link_refused, rs_runs>>
restVars == <<cliVars, seqVars, cycleVars, loopVars, reuseVars, navVars, routinesVars, allVars, runVars, clickVars, popupVars, playVars, roundVars>>
libVars  == <<splitVars, fillVars, nameSite, restVars>>
\* state of the orchestrator and the GUI
orchVars == <<sysVars, wrkVars, guiVars, histVars>>
vars     == <<orchVars, libVars>>
\* what the actions of one component leave alone
notSplit == <<orchVars, fillVars, nameSite, restVars>>
notFill  == <<orchVars, splitVars, nameSite, restVars>>
notName  == <<orchVars, splitVars, restVars>>
notCli   == <<orchVars, splitVars, fillVars, nameSite, seqVars, cycleVars, loopVars,
             reuseVars, navVars,
              routinesVars,
              allVars,
              runVars,
              clickVars,
              popupVars,
              playVars,
              roundVars>>
notSeq   == <<orchVars, splitVars, fillVars, nameSite, cliVars, cycleVars, loopVars,
             reuseVars, navVars,
              routinesVars,
              allVars,
              runVars,
              clickVars,
              popupVars,
              playVars,
              roundVars>>
notCycle == <<orchVars, splitVars, fillVars, nameSite, cliVars, seqVars, loopVars,
             reuseVars, navVars,
              routinesVars,
              allVars,
              runVars,
              clickVars,
              popupVars,
              playVars,
              roundVars>>
notLoops == <<orchVars, splitVars, fillVars, nameSite, cliVars, seqVars, cycleVars,
             reuseVars, navVars,
              routinesVars,
              allVars,
              runVars,
              clickVars,
              popupVars,
              playVars,
              roundVars>>
notReuse == <<orchVars, splitVars, fillVars, nameSite, cliVars, seqVars, cycleVars,
              loopVars, navVars,
              routinesVars,
              allVars,
              runVars,
              clickVars,
              popupVars,
              playVars,
              roundVars>>
notNav   == <<orchVars, splitVars, fillVars, nameSite, cliVars, seqVars, cycleVars, loopVars,
              reuseVars,
              routinesVars,
              allVars,
              runVars,
              clickVars,
              popupVars,
              playVars,
              roundVars>>
notRoutines == <<orchVars, splitVars, fillVars, nameSite,
  cliVars, seqVars, cycleVars, loopVars, reuseVars, navVars,
              allVars,
              runVars,
              clickVars,
              popupVars,
              playVars,
              roundVars>>
notAll == <<orchVars, splitVars, fillVars, nameSite,
  cliVars, seqVars, cycleVars, loopVars, reuseVars, navVars, routinesVars,
              runVars,
              clickVars,
              popupVars,
              playVars,
              roundVars>>
notRun == <<orchVars, splitVars, fillVars, nameSite,
  cliVars, seqVars, cycleVars, loopVars, reuseVars, navVars, routinesVars, allVars,
              clickVars,
              popupVars,
              playVars,
              roundVars>>
notClick == <<orchVars, splitVars, fillVars, nameSite,
  cliVars, seqVars, cycleVars, loopVars, reuseVars, navVars, routinesVars, allVars, runVars,
              popupVars,
              playVars,
              roundVars>>
notPopup == <<orchVars, splitVars, fillVars, nameSite,
  cliVars, seqVars, cycleVars, loopVars, reuseVars, navVars, routinesVars, allVars, runVars, clickVars,
              playVars,
              roundVars>>
notPlay == <<orchVars, splitVars, fillVars, nameSite,
  cliVars, seqVars, cycleVars, loopVars, reuseVars, navVars, routinesVars, allVars, runVars, clickVars, popupVars,
              roundVars>>
notRound == <<orchVars, splitVars, fillVars, nameSite,
  cliVars, seqVars, cycleVars, loopVars, reuseVars, navVars, routinesVars, allVars, runVars, clickVars, popupVars, playVars>>

Batches == 1..MaxBatches

\* processing_stats as set by the constructor
ZeroStats == [successful_batches |-> 0, failed_batches |-> 0,
              retry_attempts |-> 0, recovered_errors |-> 0]

\* control points of the worker at which a browser command of a batch
\* attempt is in flight
BatchCallPcs == {"recover", "nav_link", "nav_single", "fill", "submit", "alert"}
\* control points inside the for/while loop of _process_data_batches
LoopPcs == BatchCallPcs \cup {"for", "while", "sleep"}

\* control points of the worker before _process_data_batches is entered
PreLoopPcs == {"setup", "load", "wait_page", "wait_auth"}
\* control points of the worker inside one attempt of a batch
AttemptPcs == BatchCallPcs \cup {"sleep"}
\* control points of the worker after run_automation has left its try block
AfterRunPcs == {"cleanup", "notify", "exited"}

\* the worker thread exists and has not returned yet
WorkerAlive == pc \notin {"none", "exited"}

\* access log: <<attribute, thread, "r" | "w">>, recorded while both threads live
Log(S) == acc' = IF WorkerAlive THEN acc \cup S ELSE acc

\* EnhancedAutomationGUI and its threads before Start is pressed
InitOrchestrator ==
  /\ max_retries = DefaultMaxRetries
  /\ error_recovery_enabled = TRUE
  /\ current_batch = 0
  /\ total_batches = 0
  /\ form_input_ready = FALSE
  /\ voting_page_reached = FALSE
  /\ batch_data = FALSE
  /\ csvBatches = 0
  /\ stats = ZeroStats
  /\ driver = "none"
  /\ pc = "none"
  /\ retry_count = 0
  /\ batch_success = FALSE
  /\ polls = 0
  /\ ret = "none"
  /\ is_running = FALSE
  /\ afterQueue = <<>>
  /\ uiStatus = "idle"
  /\ attempts = [b \in Batches |-> 0]
  /\ marked = [b \in Batches |-> "none"]
  /\ ops = <<>>
  /\ stopSeen = FALSE
  /\ loopFinished = FALSE
  /\ settingsStable = TRUE
  /\ acc = {}

\* no split in progress: Config as shipped, no CSV loaded
SplitIdle ==
  /\ data = <<>>
  /\ MAX_SETS_PER_BATCH = DefaultBatchSize
  /\ batch_size = 0
  /\ batches = <<>>
  /\ split_i = 0
  /\ splitPc = "idle"

\* no fill in progress
FillIdle ==
  /\ num_sets = 0
  /\ game_index = 0
  /\ set_index = 0
  /\ csv_value = 0
  /\ vote_value = 0
  /\ checkbox_name = <<>>
  /\ fill_result = FALSE
  /\ fillPc = "idle"
  /\ cellFailed = FALSE
  /\ sets_skipped = FALSE
  /\ nameSite = "none"

\* no command-line entry point has been started
CliIdle ==
  /\ entry = "none"
  /\ cli_mode = "none"
  /\ csv_arg = "missing"
  /\ actions_arg = "missing"
  /\ cliPc = "idle"
  /\ success = "none"
  /\ exit_code = 0

\* the empty sequence and the empty document
NoSequence == [metadata |-> <<>>, batch_actions |-> <<>>]

\* no action sequence is being handled
SeqIdle ==
  /\ actions = NoSequence
  /\ sequence_dict = NoSequence
  /\ dictMade = FALSE
  /\ file_content = NoSequence
  /\ file_exists = FALSE
  /\ restored = NoSequence
  /\ restoredFrom = "none"

\* no batch cycle is observed
CycleIdle ==
  /\ page = "none"
  /\ alert_open = FALSE
  /\ phase = "none"
  /\ submitPc = "idle"
  /\ landed = "none"
  /\ call_result = "none"
  /\ served = <<0, 0, "none">>
  /\ addedIn = <<0, 0>>
  /\ nav_attempted = FALSE

\* none of the other batch loops runs
LoopsIdle ==
  /\ loop_kind = "none"
  /\ loop_batches = 0
  /\ batch_index = 0
  /\ processed = <<>>
  /\ loop_stats = [successful_batches |-> 0, failed_batches |-> 0]
  /\ loop_ret = "none"
  /\ loopPc = "idle"

\* no orchestrator instance is kept
ReuseIdle ==
  /\ processing_stats = ZeroStats
  /\ invocation = 0
  /\ inv_batches = 0
  /\ inv_index = 0
  /\ inv_successes = 0
  /\ inv_ret = "none"
  /\ invPc = "idle"

\* no navigation back from the cart page is in progress
NavIdle ==
  /\ browser = "none"
  /\ dialog = "none"
  /\ navPc = "idle"
  /\ link_index = 0
  /\ clicks = 0
  /\ elapsed = 0
  /\ nav_page = "none"
  /\ nav_result = "none"
  /\ started = {}
  /\ reached_by = "none"
  /\ last_start = 0
  /\ found_dead = FALSE
  /\ nav_for = 0

\* no lower-level routine is being followed
RoutinesIdle ==
  /\ routine = "none"
  /\ step_at = 0
  /\ swallowed = 0
  /\ cause = "none"
  /\ answer = "none"
  /\ caller_got = "none"

\* the process-all-batches mode was not started
AllIdle ==
  /\ processing_all_batches = FALSE
  /\ current_batch_index = 0
  /\ selected_count = 0
  /\ sys_ready = FALSE
  /\ check_timer = FALSE
  /\ handed = 0
  /\ completion_reported = FALSE
  /\ gui_worker = "none"
  /\ runs = 0
  /\ gui_running = FALSE

\* run_automation is not being followed
RunIdle ==
  /\ run_mode = "none"
  /\ run_pc = "idle"
  /\ run_step = 0
  /\ run_exit = "none"
  /\ run_driver = "none"
  /\ quit_calls = 0
  /\ run_ret = "none"

\* no cell is being clicked
ClickIdle ==
  /\ cb_pc = "idle"
  /\ dom_name = "missing"
  /\ dom_css = [i \in 1..3 |-> "missing"]
  /\ dom_similar = FALSE
  /\ cb_selected = FALSE
  /\ lookups = <<>>
  /\ checkbox = "None"
  /\ diagnosed = FALSE
  /\ click_methods = <<>>
  /\ click_success = "pending"
  /\ cell_result = "pending"

\* no popup suppression is running
PopupIdle ==
  /\ pop_pc = "idle"
  /\ pop_elapsed = 0
  /\ alert_present = FALSE
  /\ frames = 0
  /\ frame_i = 0
  /\ in_frame = FALSE
  /\ sel_i = 0
  /\ elems_left = 0
  /\ popups_handled = 0
  /\ late_actions = {}

\* no action sequence is being replayed
PlayIdle ==
  /\ play_actions = <<>>
  /\ play_pc = "idle"
  /\ play_i = 0
  /\ tries = 0
  /\ single_success = FALSE
  /\ results = <<>>
  /\ execution_stats = [total_actions |-> 0, successful_actions |-> 0,
                        failed_actions |-> 0, skipped_actions |-> 0]
  /\ play_ret = "none"

\* no run is using a round selector
RoundIdle ==
  /\ rs_pc = "idle"
  /\ rs_entry = "none"
  /\ rs_total = 0
  /\ rs_batch = 0
  /\ system_round = FALSE
  /\ gui_round_selector = "None"
  /\ gui_round = FALSE
  /\ round_link_refused = FALSE
  /\ rs_runs = 0

RestIdle == CliIdle /\ SeqIdle /\ CycleIdle /\ LoopsIdle /\ ReuseIdle /\ NavIdle /\ RoutinesIdle /\ AllIdle /\ RunIdle /\ ClickIdle /\ PopupIdle /\ PlayIdle /\ RoundIdle

Init ==
  /\ InitOrchestrator
  /\ SplitIdle
  /\ FillIdle
  /\ RestIdle

\* ---------------------------------------------------------------------------
\* Pure helpers of the batch loop

\* variant: the bound of the retry loop is off by one
LoopGuard_OffByOne(bs, rc, mr) == ~bs /\ rc < mr

\* while not batch_success and retry_count <= self.max_retries
LoopGuard(bs, rc, mr) == ~bs /\ rc <= mr

\* variant: the attempt counter is carried over from the previous batch
BatchStartRetryCount_Carry(rc) == rc

\* retry_count = 0 at the start of every batch
BatchStartRetryCount(rc) == 0

\* retry_count += 1 in the else branch (False return of the attempt)
OnFalseReturn(rc) == rc + 1

\* variant: an exception is not charged to the retry budget
OnException_NotCounted(rc) == rc

\* retry_count += 1 in the except branch of the while loop
OnException(rc) == rc + 1

\* variant: the run succeeds only if no batch failed
SuccessPredicate_NoFailure(st) == st.failed_batches = 0

\* success = self.processing_stats["successful_batches"] > 0
SuccessPredicate(st) == st.successful_batches > 0

\* variant: a failed batch leaves the for loop (the run is aborted)
AfterWhile_Abort(bs) == IF bs THEN "for" ELSE "cleanup"

\* after the while loop the for loop goes on, whether the batch succeeded or not
AfterWhile(bs) == "for"

\* variant: a batch without success is not counted
CountFailedBatch_Never(st) == st

\* self.processing_stats["failed_batches"] += 1 after the while loop
CountFailedBatch(st) == [st EXCEPT !.failed_batches = @ + 1]

\* first blocking call of _process_single_batch_basic
EnterSingleBatch(cb) == IF cb > 1 THEN "nav_link" ELSE "fill"

\* variant: the result of the step is ignored
StepNext_Ignore(out, nextpc) == nextpc

\* `if not <step>: return False` and the broad except of
\* _process_single_batch_basic: only a True return lets the attempt go on
StepNext(out, nextpc) == IF out = "ok" THEN nextpc ELSE "while"

\* variant: the retry goes straight to the attempt, without recovery
AfterRetryWait_NoRecovery(enabled, cb) == EnterSingleBatch(cb)

\* after the sleep of a retry: recovery only if error_recovery_enabled
AfterRetryWait(enabled, cb) == IF enabled THEN "recover" ELSE EnterSingleBatch(cb)

\* what a browser command can answer: nothing succeeds on a session that is gone
Outcomes(d) == IF d = "live" THEN {"ok", "false", "raise"} ELSE {"false", "raise"}

Call(op) == <<op, "call">>

\* ---------------------------------------------------------------------------
\* Worker thread: EnhancedAutomationSystem.run_automation in basic mode

\* _setup_webdriver, then _load_data of _run_basic_mode
SetupWebdriver ==
  /\ pc = "setup"
  /\ \E ok \in BOOLEAN :
       IF ok
       THEN /\ driver' = "live"
            /\ pc' = "load"
            /\ ret' = ret
       ELSE /\ driver' = driver
            /\ pc' = "cleanup"
            /\ ret' = "F"
  /\ Log({<<"driver", "worker", "w">>})
  /\ UNCHANGED <<libVars, max_retries, error_recovery_enabled, current_batch, total_batches,
                 form_input_ready, voting_page_reached, batch_data, csvBatches, stats,
                 retry_count, batch_success, polls, guiVars,
                 attempts, marked, ops, stopSeen, loopFinished, settingsStable>>

\* _load_data: pre-loaded batch data wins, otherwise the CSV is loaded
LoadData ==
  /\ pc = "load"
  /\ IF batch_data
     THEN /\ csvBatches' = 0
          /\ pc' = "wait_page"
          /\ ret' = ret
     ELSE \E k \in 0..MaxBatches :
            /\ csvBatches' = k
            /\ pc' = IF k = 0 THEN "cleanup" ELSE "wait_page"
            /\ ret' = IF k = 0 THEN "F" ELSE ret
  /\ polls' = 0
  /\ Log({<<"batch_data", "worker", "r">>})
  /\ UNCHANGED <<libVars, max_retries, error_recovery_enabled, current_batch, total_batches,
                 form_input_ready, voting_page_reached, batch_data, stats, driver,
                 retry_count, batch_success, guiVars,
                 attempts, marked, ops, stopSeen, loopFinished, settingsStable>>

\* one iteration of the polling loop of _wait_for_voting_page
PollVotingPage ==
  /\ pc = "wait_page"
  /\ IF polls >= VotingPagePolls
     THEN /\ pc' = "cleanup"
          /\ ret' = "F"
          /\ polls' = 0
          /\ UNCHANGED voting_page_reached
          /\ acc' = acc
     ELSE \E seen \in (IF driver = "live" THEN BOOLEAN ELSE {FALSE}) :
            IF seen
            THEN /\ voting_page_reached' = TRUE
                 /\ pc' = "wait_auth"
                 /\ polls' = 0
                 /\ ret' = ret
                 /\ Log({<<"driver", "worker", "r">>,
                         <<"voting_page_reached", "worker", "w">>})
            ELSE /\ polls' = polls + 1
                 /\ UNCHANGED <<pc, ret, voting_page_reached>>
                 /\ Log({<<"driver", "worker", "r">>})
  /\ UNCHANGED <<libVars, max_retries, error_recovery_enabled, current_batch, total_batches,
                 form_input_ready, batch_data, csvBatches, stats, driver,
                 retry_count, batch_success, guiVars,
                 attempts, marked, ops, stopSeen, loopFinished, settingsStable>>

\* variant: the wait is left without looking at the flag
AuthorizationGranted_Always(ready) == TRUE
\* if self.form_input_ready: return True
AuthorizationGranted(ready) == ready

\* one iteration of the polling loop of _wait_for_form_input_authorization;
\* on authorization _process_data_batches chooses its data source
PollAuthorization ==
  /\ pc = "wait_auth"
  /\ IF AuthorizationGranted(form_input_ready)
     THEN IF csvBatches > 0 \/ batch_data
          THEN /\ total_batches' = IF csvBatches > 0 THEN csvBatches ELSE 1
               /\ pc' = "for"
               /\ ret' = ret
          ELSE /\ total_batches' = total_batches
               /\ pc' = "cleanup"
               /\ ret' = "F"
     ELSE IF polls + 1 >= AuthorizationPolls
          THEN /\ pc' = "cleanup"
               /\ ret' = "F"
               /\ total_batches' = total_batches
          ELSE /\ UNCHANGED <<pc, ret, total_batches>>
  \* the loop counter is dead once the loop is left
  /\ polls' = IF pc' = "wait_auth" THEN polls + 1 ELSE 0
  /\ Log({<<"form_input_ready", "worker", "r">>}
         \cup (IF form_input_ready THEN {<<"batch_data", "worker", "r">>} ELSE {}))
  /\ UNCHANGED <<libVars, max_retries, error_recovery_enabled, current_batch,
                 form_input_ready, voting_page_reached, batch_data, csvBatches, stats,
                 driver, retry_count, batch_success, guiVars,
                 attempts, marked, ops, stopSeen, loopFinished, settingsStable>>

\* ---------------------------------------------------------------------------
\* _process_data_batches: the for loop over the batches

\* head of `for batch_index, batch in enumerate(batches)`; after the last
\* batch the summary computes the result of the run
ForNext ==
  /\ pc = "for"
  /\ IF current_batch < total_batches
     THEN /\ current_batch' = current_batch + 1
          /\ batch_success' = FALSE
          /\ retry_count' = BatchStartRetryCount(retry_count)
          /\ pc' = "while"
          /\ UNCHANGED <<ret, loopFinished>>
     ELSE /\ ret' = IF SuccessPredicate(stats) THEN "T" ELSE "F"
          /\ loopFinished' = TRUE
          /\ pc' = "cleanup"
          /\ UNCHANGED <<current_batch, batch_success, retry_count>>
  /\ UNCHANGED <<libVars, max_retries, error_recovery_enabled, total_batches,
                 form_input_ready, voting_page_reached, batch_data, csvBatches, stats,
                 driver, polls, guiVars, attempts, marked, ops, stopSeen,
                 settingsStable, acc>>

\* test of the while loop: either one more attempt begins, or the loop is
\* left and a batch without success is marked failed
WhileTest ==
  /\ pc = "while"
  /\ IF LoopGuard(batch_success, retry_count, max_retries)
     THEN /\ attempts' = [attempts EXCEPT ![current_batch] = @ + 1]
          /\ IF retry_count > 0
             THEN /\ stats' = [stats EXCEPT !.retry_attempts = @ + 1]
                  /\ pc' = "sleep"
             ELSE /\ stats' = stats
                  /\ pc' = EnterSingleBatch(current_batch)
          /\ ops' = <<Call(pc')>>
          /\ marked' = marked
     ELSE /\ IF ~batch_success
             THEN /\ stats' = CountFailedBatch(stats)
                  /\ marked' = [marked EXCEPT ![current_batch] = "failed"]
             ELSE UNCHANGED <<stats, marked>>
          /\ pc' = AfterWhile(batch_success)
          /\ UNCHANGED <<attempts, ops>>
  /\ Log({<<"max_retries", "worker", "r">>}
         \cup (IF pc' = "sleep" THEN {<<"retry_delay", "worker", "r">>} ELSE {}))
  /\ UNCHANGED <<libVars, max_retries, error_recovery_enabled, current_batch, total_batches,
                 form_input_ready, voting_page_reached, batch_data, csvBatches,
                 driver, retry_count, batch_success, polls, ret, guiVars,
                 stopSeen, loopFinished, settingsStable>>

\* time.sleep(self.retry_delay) of a retry returns, or raises (a negative
\* delay is a ValueError), which the except branch of the while loop counts.
\* start_automation installs no progress callback, so the notifications of
\* the loop are no-ops on this path.
SleepReturn ==
  /\ pc = "sleep"
  /\ \E out \in {"ok", "raise"} :
       IF out = "ok"
       THEN /\ pc' = AfterRetryWait(error_recovery_enabled, current_batch)
            /\ ops' = ops \o <<<<"sleep", "ok">>, Call(pc')>>
            /\ retry_count' = retry_count
       ELSE /\ pc' = "while"
            /\ ops' = Append(ops, <<"sleep", "raise">>)
            /\ retry_count' = OnException(retry_count)
  /\ Log({<<"error_recovery_enabled", "worker", "r">>})
  /\ UNCHANGED <<libVars, sysVars, batch_success, polls, ret, guiVars,
                 attempts, marked, stopSeen, loopFinished, settingsStable>>

\* _attempt_error_recovery returns; it swallows every exception and its
\* result is ignored
RecoverReturn ==
  /\ pc = "recover"
  /\ pc' = EnterSingleBatch(current_batch)
  /\ ops' = ops \o <<<<"recover", "ok">>, Call(pc')>>
  /\ Log({<<"driver", "worker", "r">>})
  /\ UNCHANGED <<libVars, sysVars, retry_count, batch_success, polls, ret, guiVars,
                 attempts, marked, stopSeen, loopFinished, settingsStable>>

\* a step of _process_single_batch_basic returns: True lets the attempt go
\* on with the next step; False, or an exception caught by the broad except
\* of the function, ends the attempt with False
StepReturnWith(op, nextpc, out) ==
  /\ pc = op
  /\ pc' = StepNext(out, nextpc)
  /\ ops' = IF pc' = "while" THEN Append(ops, <<op, out>>)
                             ELSE ops \o <<<<op, out>>, Call(pc')>>
  /\ retry_count' = IF pc' = "while" THEN OnFalseReturn(retry_count)
                                     ELSE retry_count
  /\ Log({<<"driver", "worker", "r">>})
  /\ UNCHANGED <<libVars, sysVars, batch_success, polls, ret, guiVars,
                 attempts, marked, stopSeen, loopFinished, settingsStable>>

\* in the orchestrator model the step answers anything the session allows
StepReturn(op, nextpc) ==
  \E out \in Outcomes(driver) : StepReturnWith(op, nextpc, out)

NavLinkReturn   == StepReturn("nav_link", "nav_single")
NavSingleReturn == StepReturn("nav_single", "fill")
FillReturn      == StepReturn("fill", "submit")
SubmitReturn    == StepReturn("submit", "alert")

\* handle_alert returns (its result is ignored and it never raises): the
\* attempt returns True and the batch is counted as successful
AlertReturn ==
  /\ pc = "alert"
  /\ batch_success' = TRUE
  /\ stats' = [stats EXCEPT !.successful_batches = @ + 1,
                            !.recovered_errors = IF retry_count > 0 THEN @ + 1 ELSE @]
  /\ marked' = [marked EXCEPT ![current_batch] = "ok"]
  /\ ops' = Append(ops, <<"alert", "ok">>)
  /\ pc' = "while"
  /\ Log({<<"driver", "worker", "r">>})
  /\ UNCHANGED <<libVars, max_retries, error_recovery_enabled, current_batch, total_batches,
                 form_input_ready, voting_page_reached, batch_data, csvBatches,
                 driver, retry_count, polls, ret, guiVars,
                 attempts, stopSeen, loopFinished, settingsStable>>

\* finally: self._cleanup() -> quit_driver()
Cleanup ==
  /\ pc = "cleanup"
  /\ driver' = "none"
  /\ pc' = "notify"
  /\ Log({<<"driver", "worker", "w">>})
  /\ UNCHANGED <<libVars, max_retries, error_recovery_enabled, current_batch, total_batches,
                 form_input_ready, voting_page_reached, batch_data, csvBatches, stats,
                 retry_count, batch_success, polls, ret, guiVars,
                 attempts, marked, ops, stopSeen, loopFinished, settingsStable>>

\* variant: the worker clears the GUI's is_running flag itself
NotifyFinished_Direct ==
  /\ pc = "notify"
  /\ is_running' = FALSE
  /\ uiStatus' = IF ret = "T" THEN "finished_ok" ELSE "finished_failed"
  /\ pc' = "exited"
  /\ acc' = acc \cup {<<"is_running", "worker", "w">>}
  /\ UNCHANGED <<libVars, sysVars, retry_count, batch_success, polls, ret, afterQueue,
                 attempts, marked, ops, stopSeen, loopFinished, settingsStable>>

\* GUI.run_automation: self.root.after(0, self.automation_finished, success)
NotifyFinished ==
  /\ pc = "notify"
  /\ afterQueue' = Append(afterQueue, <<"automation_finished", ret>>)
  /\ pc' = "exited"
  /\ UNCHANGED <<libVars, sysVars, retry_count, batch_success, polls, ret,
                 is_running, uiStatus, histVars>>

\* ---------------------------------------------------------------------------
\* UI thread: handlers of EnhancedAutomationGUI

\* start_automation: a new EnhancedAutomationSystem (its constructor sets the
\* fields as in Init), the selected batch when the selection is valid, the
\* worker thread, and the first check_voting_page_status().  The model
\* follows one automation run.
StartAutomation ==
  /\ ~is_running
  /\ pc = "none"
  /\ \E selected \in BOOLEAN : batch_data' = selected
  /\ pc' = "setup"
  /\ is_running' = TRUE
  /\ uiStatus' = "started"
  /\ acc' = {<<"is_running", "ui", "r">>, <<"is_running", "ui", "w">>,
             <<"voting_page_reached", "ui", "r">>}
  /\ UNCHANGED <<libVars, max_retries, error_recovery_enabled, current_batch, total_batches,
                 form_input_ready, voting_page_reached, csvBatches, stats, driver,
                 retry_count, batch_success, polls, ret, afterQueue,
                 attempts, marked, ops, stopSeen, loopFinished, settingsStable>>

\* apply_settings: the retry settings are written to the existing system
ApplySettings ==
  /\ pc # "none"
  /\ \E n \in 0..MaxRetriesBound, rec \in BOOLEAN :
       /\ max_retries' = n
       /\ error_recovery_enabled' = rec
       /\ settingsStable' = (settingsStable /\
                             (pc \notin PreLoopPcs =>
                                  n = max_retries /\ rec = error_recovery_enabled))
  /\ Log({<<"max_retries", "ui", "w">>, <<"retry_delay", "ui", "w">>,
          <<"error_recovery_enabled", "ui", "w">>})
  /\ UNCHANGED <<libVars, current_batch, total_batches, form_input_ready, voting_page_reached,
                 batch_data, csvBatches, stats, driver, wrkVars, guiVars,
                 attempts, marked, ops, stopSeen, loopFinished>>

\* start_form_input: set_batch_data(selected batch), then start_form_input()
StartFormInput ==
  /\ pc # "none"
  /\ voting_page_reached
  /\ ~form_input_ready
  /\ batch_data' = TRUE
  /\ form_input_ready' = TRUE
  /\ Log({<<"voting_page_reached", "ui", "r">>, <<"batch_data", "ui", "w">>,
          <<"form_input_ready", "ui", "w">>})
  /\ UNCHANGED <<libVars, max_retries, error_recovery_enabled, current_batch, total_batches,
                 voting_page_reached, csvBatches, stats, driver, wrkVars, guiVars,
                 attempts, marked, ops, stopSeen, loopFinished, settingsStable>>

\* stop_automation: is_running = False, then automation_system._cleanup(),
\* which quits the driver of the running system
StopAutomation ==
  /\ is_running
  /\ is_running' = FALSE
  /\ driver' = "none"
  /\ uiStatus' = "stopped"
  /\ stopSeen' = TRUE
  /\ Log({<<"is_running", "ui", "r">>, <<"is_running", "ui", "w">>,
          <<"driver", "ui", "w">>})
  /\ UNCHANGED <<libVars, max_retries, error_recovery_enabled, current_batch, total_batches,
                 form_input_ready, voting_page_reached, batch_data, csvBatches, stats,
                 wrkVars, afterQueue,
                 attempts, marked, ops, loopFinished, settingsStable>>

\* detect_toto_rounds (and the other round-navigation buttons): the handler
\* runs on the UI thread, needs only an existing automation system, and
\* drives automation_system.webdriver_manager.driver (driver.get(START_URL),
\* find_elements); whether a worker thread is running is not looked at
DetectTotoRounds ==
  /\ pc # "none"
  /\ driver = "live"
  /\ Log({<<"driver", "ui", "r">>})
  /\ UNCHANGED <<libVars, sysVars, wrkVars, guiVars,
                 attempts, marked, ops, stopSeen, loopFinished, settingsStable>>

\* the Tk event loop runs the scheduled automation_finished(success)
RunAfterCallback ==
  /\ afterQueue # <<>>
  /\ is_running' = FALSE
  /\ uiStatus' = IF Head(afterQueue)[2] = "T" THEN "finished_ok" ELSE "finished_failed"
  /\ afterQueue' = Tail(afterQueue)
  /\ Log({<<"is_running", "ui", "w">>})
  /\ UNCHANGED <<libVars, sysVars, wrkVars,
                 attempts, marked, ops, stopSeen, loopFinished, settingsStable>>

Next ==
  \/ SetupWebdriver
  \/ LoadData
  \/ PollVotingPage
  \/ PollAuthorization
  \/ ForNext
  \/ WhileTest
  \/ SleepReturn
  \/ RecoverReturn
  \/ NavLinkReturn
  \/ NavSingleReturn
  \/ FillReturn
  \/ SubmitReturn
  \/ AlertReturn
  \/ Cleanup
  \/ NotifyFinished
  \/ StartAutomation
  \/ ApplySettings
  \/ StartFormInput
  \/ StopAutomation
  \/ DetectTotoRounds
  \/ RunAfterCallback

Spec == Init /\ [][Next]_vars

TypeOK ==
  /\ max_retries \in 0..(MaxRetriesBound + DefaultMaxRetries)
  /\ retry_count \in 0..(max_retries + MaxRetriesBound + DefaultMaxRetries + 1)
  /\ current_batch \in 0..MaxBatches
  /\ total_batches \in 0..MaxBatches
  /\ pc \in LoopPcs \cup {"none", "setup", "load", "wait_page", "wait_auth",
                          "cleanup", "notify", "exited"}
  /\ ret \in {"none", "T", "F"}
  /\ driver \in {"none", "live"}

\* ---------------------------------------------------------------------------
\* DataHandler.split_data_into_batches

\* the rest of the model stands still while a library function is examined
OrchestratorIdle == InitOrchestrator

\* batch sizes the Batch Size spinbox can write to Config.MAX_SETS_PER_BATCH
BatchSizes == BatchSpinFrom..BatchSpinTo

\* sizes passed explicitly (split_data_into_batches(batch_size=10))
ExplicitSizes == {DefaultBatchSize}

\* a loaded CSV of n rows; a row is represented by its line number
Rows(n) == [k \in 1..n |-> k]

\* the splitter is about to be called: self.data is None (nothing loaded) or
\* holds the rows of a valid CSV, and Config holds the shipped batch size or
\* the one apply_settings wrote
InitSplit ==
  /\ OrchestratorIdle
  /\ FillIdle
  /\ RestIdle
  /\ \E n \in 0..MaxRows : data = Rows(n)
  /\ MAX_SETS_PER_BATCH \in BatchSizes
  /\ batch_size = 0
  /\ batches = <<>>
  /\ split_i = 0
  /\ splitPc = "idle"

Min(a, b) == IF a <= b THEN a ELSE b

\* the Python slice d[lo:hi] for 0 <= lo
Slice(d, lo, hi) == SubSeq(d, lo + 1, Min(hi, Len(d)))

\* variant: range(0, len(self.data) - 1, batch_size)
RangeHas_Short(k, stop) == k + 1 < stop

\* range(0, stop, step) still has the index k
RangeHas(k, stop) == k < stop

\* the index after k in range(0, stop, step)
RangeNext(k, step) == k + step

\* entry of split_data_into_batches: the default of batch_size, the early
\* return for no data, batches = []
SplitCall ==
  /\ splitPc = "idle"
  /\ \/ batch_size' = MAX_SETS_PER_BATCH
     \/ \E k \in ExplicitSizes : batch_size' = k
  /\ batches' = <<>>
  /\ split_i' = 0
  /\ splitPc' = IF data = <<>> THEN "returned" ELSE "loop"
  /\ UNCHANGED <<notSplit, data, MAX_SETS_PER_BATCH>>

\* one iteration of `for i in range(0, len(self.data), batch_size)`, or the
\* return of the function when the range is exhausted
SplitStep ==
  /\ splitPc = "loop"
  /\ IF RangeHas(split_i, Len(data))
     THEN /\ batches' = Append(batches, Slice(data, split_i, split_i + batch_size))
          /\ split_i' = RangeNext(split_i, batch_size)
          /\ splitPc' = splitPc
     ELSE /\ splitPc' = "returned"
          /\ UNCHANGED <<batches, split_i>>
  /\ UNCHANGED <<notSplit, data, MAX_SETS_PER_BATCH, batch_size>>

NextSplit ==
  \/ SplitCall
  \/ SplitStep

SpecSplit == InitSplit /\ [][NextSplit]_vars

\* ---------------------------------------------------------------------------
\* FormFiller.fill_voting_form, called by _process_single_batch_basic

\* the worker's first attempt of the only batch has reached the call of
\* fill_voting_form (a state of Spec)
OrchestratorAtFill ==
  /\ max_retries = DefaultMaxRetries
  /\ error_recovery_enabled = TRUE
  /\ current_batch = 1
  /\ total_batches = 1
  /\ form_input_ready = TRUE
  /\ voting_page_reached = TRUE
  /\ batch_data = TRUE
  /\ csvBatches = 0
  /\ stats = ZeroStats
  /\ driver = "live"
  /\ pc = "fill"
  /\ retry_count = 0
  /\ batch_success = FALSE
  /\ polls = 0
  /\ ret = "none"
  /\ is_running = TRUE
  /\ afterQueue = <<>>
  /\ uiStatus = "started"
  /\ attempts = [b \in Batches |-> IF b = 1 THEN 1 ELSE 0]
  /\ marked = [b \in Batches |-> "none"]
  /\ ops = <<Call("fill")>>
  /\ stopSeen = FALSE
  /\ loopFinished = FALSE
  /\ settingsStable = TRUE
  /\ acc = {<<"is_running", "ui", "r">>, <<"is_running", "ui", "w">>,
            <<"voting_page_reached", "ui", "r">>,
            <<"voting_page_reached", "worker", "w">>,
            <<"driver", "worker", "w">>, <<"driver", "worker", "r">>,
            <<"batch_data", "worker", "r">>, <<"batch_data", "ui", "w">>,
            <<"form_input_ready", "ui", "w">>, <<"form_input_ready", "worker", "r">>,
            <<"max_retries", "worker", "r">>}

\* values a cell of the batch can hold
CsvValues == 0..MaxCsvValue

\* what _click_checkbox can answer for a cell: the checkbox was clicked, it
\* was not found, the click did not select it, or an exception was caught
ClickOutcomes == {"ok", "not_found", "not_selected", "raise"}

\* the batch is handed to the filler: its number of sets, and the batch size
\* Config holds at that time
InitFill ==
  /\ OrchestratorAtFill
  /\ RestIdle
  /\ data = <<>>
  /\ MAX_SETS_PER_BATCH \in BatchSizes
  /\ batch_size = 0
  /\ batches = <<>>
  /\ split_i = 0
  /\ splitPc = "idle"
  /\ num_sets \in 0..MaxSets
  /\ game_index = 0
  /\ set_index = 0
  /\ csv_value = 0
  /\ vote_value = 0
  /\ checkbox_name = <<>>
  /\ fill_result = FALSE
  /\ fillPc = "idle"
  /\ cellFailed = FALSE
  /\ sets_skipped = FALSE
  /\ nameSite = "none"

\* variant: the CSV value is used as the page value (as _fill_single_set does)
VoteValue_Identity(csv) == IF csv \in {0, 1, 2} THEN csv ELSE Rejected

\* if csv_value == 1: 0 / elif csv_value == 0: 1 / elif csv_value == 2: 2 /
\* else: return False
VoteValue(csv) ==
  IF csv = 1 THEN 0
  ELSE IF csv = 0 THEN 1
  ELSE IF csv = 2 THEN 2
  ELSE Rejected

\* str.format of a non-negative int: its decimal digits
DigitChars == <<"0", "1", "2", "3", "4", "5", "6", "7", "8", "9">>
RECURSIVE Str(_)
Str(n) == IF n < 10 THEN <<DigitChars[n + 1]>>
                    ELSE Str(n \div 10) \o <<DigitChars[(n % 10) + 1]>>

\* Config.CHECKBOX_PATTERNS['standard'] = 'chkbox_{game}_{set}_{value}'
StandardPattern(game, set, value) ==
  <<"c", "h", "k", "b", "o", "x", "_">> \o Str(game) \o <<"_">> \o Str(set)
    \o <<"_">> \o Str(value)

\* _get_checkbox_name: the pattern is filled with game=set_index,
\* set=game_index
GetCheckboxName(g, st, v) == StandardPattern(st, g, v)

\* variant: a failed click does not end the fill
AfterClick_Ignore(out) == "next"

\* success = self._click_checkbox(...); if not success: return False
AfterClick(out) == IF out = "ok" THEN "next" ELSE "return_false"

\* fill_voting_form is entered: num_games, num_sets, the first game
FillCall ==
  /\ pc = "fill"
  /\ fillPc = "idle"
  /\ game_index' = 0
  /\ set_index' = 0
  /\ fillPc' = "cell"
  /\ UNCHANGED <<notFill, num_sets, csv_value, vote_value,
                 checkbox_name, fill_result, cellFailed, sets_skipped>>

\* the two nested loops up to the next call of _click_checkbox: the end of
\* the game range returns True, the end of the set range (or the break at
\* MAX_SETS_PER_BATCH) goes to the next game, and a cell is read, converted
\* and, unless rejected, handed to _click_checkbox.  The rows come from
\* validated CSV data, so every row has MAX_GAMES_PER_SET values.
FillNextCell ==
  /\ fillPc = "cell"
  /\ IF game_index >= MAX_GAMES_PER_SET
     THEN /\ fill_result' = TRUE
          /\ fillPc' = "returned"
          /\ UNCHANGED <<game_index, set_index, csv_value, vote_value, checkbox_name>>
     ELSE IF set_index >= num_sets \/ set_index >= MAX_SETS_PER_BATCH
     THEN /\ game_index' = game_index + 1
          /\ set_index' = 0
          /\ UNCHANGED <<csv_value, vote_value, checkbox_name, fill_result, fillPc>>
     ELSE \E v \in CsvValues :
            /\ csv_value' = v
            /\ IF VoteValue(v) = Rejected
               THEN /\ fill_result' = FALSE
                    /\ fillPc' = "returned"
                    /\ UNCHANGED <<vote_value, checkbox_name>>
               ELSE /\ vote_value' = VoteValue(v)
                    /\ checkbox_name' = GetCheckboxName(game_index, set_index, vote_value')
                    /\ fillPc' = "click"
                    /\ UNCHANGED fill_result
            /\ UNCHANGED <<game_index, set_index>>
  /\ sets_skipped' = (sets_skipped \/ (/\ game_index < MAX_GAMES_PER_SET
                                         /\ set_index < num_sets
                                         /\ set_index >= MAX_SETS_PER_BATCH))
  /\ UNCHANGED <<notFill, num_sets, cellFailed>>

\* _click_checkbox returns
FillClickReturn ==
  /\ fillPc = "click"
  /\ \E out \in ClickOutcomes :
       IF AfterClick(out) = "next"
       THEN /\ set_index' = set_index + 1
            /\ fillPc' = "cell"
            /\ cellFailed' = (cellFailed \/ out # "ok")
            /\ UNCHANGED fill_result
       ELSE /\ fill_result' = FALSE
            /\ fillPc' = "returned"
            /\ cellFailed' = TRUE
            /\ UNCHANGED set_index
  /\ UNCHANGED <<notFill, num_sets, game_index, csv_value, vote_value,
                 checkbox_name, sets_skipped>>

\* `if not self.form_filler.fill_voting_form(batch_data): return False`, then
\* the else branch of the retry loop
FillReturnToCaller ==
  /\ fillPc = "returned"
  /\ StepReturnWith("fill", "submit", IF fill_result THEN "ok" ELSE "false")

NextFill ==
  \/ FillCall
  \/ FillNextCell
  \/ FillClickReturn
  \/ FillReturnToCaller

SpecFill == InitFill /\ [][NextFill]_vars

\* ---------------------------------------------------------------------------
\* The two generators of checkbox names

\* a cell of the form and a page value
InitName ==
  /\ OrchestratorIdle
  /\ SplitIdle
  /\ RestIdle
  /\ num_sets = 0
  /\ game_index \in 0..(MAX_GAMES_PER_SET - 1)
  /\ set_index \in 0..(DefaultBatchSize - 1)
  /\ csv_value = 0
  /\ vote_value \in 0..2
  /\ checkbox_name = <<>>
  /\ fill_result = FALSE
  /\ fillPc = "idle"
  /\ cellFailed = FALSE
  /\ sets_skipped = FALSE
  /\ nameSite = "none"

\* _click_checkbox asks _get_checkbox_name for the name of the cell
GetCheckboxNameCall ==
  /\ nameSite = "none"
  /\ checkbox_name' = GetCheckboxName(game_index, set_index, vote_value)
  /\ nameSite' = "filler"
  /\ UNCHANGED <<notName, num_sets, game_index, set_index, csv_value,
                 vote_value, fill_result, fillPc, cellFailed,
                 sets_skipped>>

\* _diagnose_form_submission_failure builds the name of a sampled cell:
\* checkbox_name = f"chkbox_{game_index}_{set_index}_{value}"
DiagnoseNameCall ==
  /\ nameSite = "none"
  /\ game_index < Min(MAX_GAMES_PER_SET, DiagnosedGames)
  /\ set_index < Min(DefaultBatchSize, DiagnosedSets)
  /\ checkbox_name' = StandardPattern(game_index, set_index, vote_value)
  /\ nameSite' = "diagnosis"
  /\ UNCHANGED <<notName, num_sets, game_index, set_index, csv_value,
                 vote_value, fill_result, fillPc, cellFailed,
                 sets_skipped>>

NextName ==
  \/ GetCheckboxNameCall
  \/ DiagnoseNameCall

SpecName == InitName /\ [][NextName]_vars

\* ---------------------------------------------------------------------------
\* The command-line entry points: enhanced_automation.main,
\* voting_automation.main and run_complete_workflow.main

Entries == {"enhanced", "voting", "complete"}
\* a path argument: not given, given but no such file, given and present
PathArgs == {"missing", "not_found", "ok"}

\* the command line of one invocation
InitCli ==
  /\ OrchestratorIdle
  /\ SplitIdle
  /\ FillIdle
  /\ entry \in Entries
  /\ IF entry = "enhanced"
     THEN /\ cli_mode \in {"missing", "record", "execute", "basic"}
          /\ actions_arg \in PathArgs
     ELSE /\ cli_mode = "none"
          /\ actions_arg = "missing"
  /\ csv_arg \in PathArgs
  /\ cliPc = "start"
  /\ success = "none"
  /\ exit_code = 0
  /\ SeqIdle
  /\ CycleIdle
  /\ LoopsIdle
  /\ ReuseIdle
  /\ NavIdle
  /\ RoutinesIdle
  /\ AllIdle
  /\ RunIdle
  /\ ClickIdle
  /\ PopupIdle
  /\ PlayIdle
  /\ RoundIdle

\* the option parser rejects a command line without a required option
\* (--mode of the enhanced entry, --csv of the two others)
UsageError(e, m, csv) ==
  \/ e = "enhanced" /\ m = "missing"
  \/ e \in {"voting", "complete"} /\ csv = "missing"

\* the checks of main() that end the process before the run
ValidationFails(e, m, csv, act) ==
  IF e = "enhanced"
  THEN \/ m \in {"execute", "basic"} /\ csv = "missing"
       \/ m = "execute" /\ act = "missing"
       \/ csv = "not_found"
       \/ act = "not_found" /\ m = "execute"
  ELSE csv = "not_found"

\* run_automation of both automation systems catches KeyboardInterrupt and
\* returns False; execute_complete_workflow catches Exception only
CatchesInterrupt(e) == e \in {"enhanced", "voting"}

\* variant: the process reports success whatever the run returned
ExitCode_AlwaysZero(result) == 0

\* if success: sys.exit(0) else: sys.exit(1)  (return 0 / return 1 under
\* raise SystemExit(main()))
ExitCode(result) == IF result = "True" THEN 0 ELSE 1

\* click / argparse parse the command line
CliParse ==
  /\ cliPc = "start"
  /\ IF UsageError(entry, cli_mode, csv_arg)
     THEN /\ cliPc' = "exited"
          /\ exit_code' = 2
     ELSE /\ cliPc' = "validate"
          /\ exit_code' = exit_code
  /\ UNCHANGED <<notCli, entry, cli_mode, csv_arg, actions_arg, success>>

\* the checks of the arguments before the automation object is built
CliValidate ==
  /\ cliPc = "validate"
  /\ IF ValidationFails(entry, cli_mode, csv_arg, actions_arg)
     THEN /\ cliPc' = "exited"
          /\ exit_code' = 1
     ELSE /\ cliPc' = "run"
          /\ exit_code' = exit_code
  /\ UNCHANGED <<notCli, entry, cli_mode, csv_arg, actions_arg, success>>

\* the run returns its overall result (False also for every exception it
\* catches)
CliRunReturns ==
  /\ cliPc = "run"
  /\ \E r \in {"True", "False"} : success' = r
  /\ cliPc' = "returned"
  /\ UNCHANGED <<notCli, entry, cli_mode, csv_arg, actions_arg, exit_code>>

\* Ctrl-C during the run: caught and turned into False, or (complete
\* workflow) propagated out of main, so that no exit statement is reached
CliRunInterrupted ==
  /\ cliPc = "run"
  /\ IF CatchesInterrupt(entry)
     THEN /\ success' = "False"
          /\ cliPc' = "returned"
     ELSE /\ success' = success
          /\ cliPc' = "interrupted"
  /\ UNCHANGED <<notCli, entry, cli_mode, csv_arg, actions_arg, exit_code>>

\* the exit statement after the run
CliExit ==
  /\ cliPc = "returned"
  /\ exit_code' = ExitCode(success)
  /\ cliPc' = "exited"
  /\ UNCHANGED <<notCli, entry, cli_mode, csv_arg, actions_arg, success>>

NextCli ==
  \/ CliParse
  \/ CliValidate
  \/ CliRunReturns
  \/ CliRunInterrupted
  \/ CliExit

SpecCli == InitCli /\ [][NextCli]_vars

\* ---------------------------------------------------------------------------
\* ActionStep / ActionSequence and ActionFileManager (action_manager.py)

\* Python values: the type and the text of the value, in pieces
PyNone == <<"none", <<"None">>>>
PyTrue == <<"bool", <<"True">>>>
PyFalse == <<"bool", <<"False">>>>
PyStr(t) == <<"str", <<t>>>>
PyInt(digits) == <<"int", <<digits>>>>
PyFloat(whole, frac) == <<"float", <<whole, ".", frac>>>>

\* the fields of ActionStep in declaration order, and their defaults
\* (action has none; the model never leaves it out)
Fields == <<"action", "selector", "value", "description", "wait_before",
            "wait_after", "timeout", "optional", "retry_count">>
FieldSet == {Fields[k] : k \in 1..Len(Fields)}
DefaultStep ==
  [f \in FieldSet |->
     CASE f = "action" -> PyStr("click")
       [] f \in {"selector", "value", "description"} -> PyNone
       [] f = "wait_before" -> PyFloat("0", "0")
       [] f = "wait_after" -> PyFloat("1", "0")
       [] f = "timeout" -> PyFloat("10", "0")
       [] f = "optional" -> PyFalse
       [] f = "retry_count" -> PyInt("3")]

\* the steps the model builds sequences from
Steps ==
  {[DefaultStep EXCEPT !["action"] = a, !["selector"] = sel,
                       !["optional"] = opt, !["retry_count"] = rc] :
     a \in {PyStr("click"), PyStr("sleep")}, sel \in {PyNone, PyStr("button.test")},
     opt \in {PyFalse, PyTrue}, rc \in {PyInt("3"), PyInt("0")}}

RECURSIVE SeqsUpTo(_, _)
\* the sequences over S of length at most n
SeqsUpTo(S, n) ==
  IF n = 0 THEN {<<>>}
  ELSE LET shorter == SeqsUpTo(S, n - 1)
       IN  shorter \cup {Append(q, x) : q \in shorter, x \in S}

\* metadata dictionaries (key/value pairs in insertion order)
Metadatas == {<<>>, <<<<"name", PyStr("Test Sequence")>>, <<"version", PyStr("0.9")>>>>}

\* an ActionSequence has been built in memory
InitSeq ==
  /\ OrchestratorIdle
  /\ SplitIdle
  /\ FillIdle
  /\ CliIdle
  /\ CycleIdle
  /\ LoopsIdle
  /\ ReuseIdle
  /\ NavIdle
  /\ RoutinesIdle
  /\ AllIdle
  /\ RunIdle
  /\ ClickIdle
  /\ PopupIdle
  /\ PlayIdle
  /\ RoundIdle
  /\ \E md \in Metadatas, steps \in SeqsUpTo(Steps, MaxSteps) :
       actions = [metadata |-> md, batch_actions |-> steps]
  /\ sequence_dict = NoSequence
  /\ dictMade = FALSE
  /\ file_content = NoSequence
  /\ file_exists = FALSE
  /\ restored = NoSequence
  /\ restoredFrom = "none"

\* d.get(key, default) on a dictionary of key/value pairs
Get(d, key, default) ==
  IF \E k \in 1..Len(d) : d[k][1] = key
  THEN d[CHOOSE k \in 1..Len(d) : d[k][1] = key][2]
  ELSE default

\* d.update({key: v}): an existing key keeps its place, a new one is appended
Update(d, key, v) ==
  IF \E k \in 1..Len(d) : d[k][1] = key
  THEN [k \in 1..Len(d) |-> IF d[k][1] = key THEN <<key, v>> ELSE d[k]]
  ELSE Append(d, <<key, v>>)

\* bool(v) is False
Falsy(v) ==
  \/ v \in {PyNone, PyFalse, PyStr("")}
  \/ v[1] \in {"int", "float"} /\ \A k \in 1..Len(v[2]) : v[2][k] \in {"0", "."}

RECURSIVE DropFalsy(_)
DropFalsy(d) ==
  IF d = <<>> THEN <<>>
  ELSE IF Falsy(Head(d)[2]) THEN DropFalsy(Tail(d))
  ELSE <<Head(d)>> \o DropFalsy(Tail(d))

\* variant: fields holding a false value are left out of the dictionary
StepToDict_DropFalsy(step) ==
  DropFalsy([k \in 1..Len(Fields) |-> <<Fields[k], step[Fields[k]]>>])

\* ActionStep.to_dict: asdict(self)
StepToDict(step) == [k \in 1..Len(Fields) |-> <<Fields[k], step[Fields[k]]>>]

\* ActionStep.from_dict: cls(**data), absent keys take the defaults
StepFromDict(d) == [f \in FieldSet |-> Get(d, f, DefaultStep[f])]

\* ActionSequence.to_dict
SequenceToDict(sq) ==
  [metadata |-> sq.metadata,
   batch_actions |-> [k \in 1..Len(sq.batch_actions) |->
                        StepToDict(sq.batch_actions[k])]]

\* ActionSequence.from_dict
SequenceFromDict(d) ==
  [metadata |-> d.metadata,
   batch_actions |-> [k \in 1..Len(d.batch_actions) |->
                        StepFromDict(d.batch_actions[k])]]

\* json.dump of a value: None -> null, True/False -> true/false, numbers by
\* their repr, strings as strings
JsonEncode(v) ==
  CASE v[1] = "none" -> <<"literal", <<"null">>>>
    [] v[1] = "bool" -> <<"literal", <<IF v = PyTrue THEN "true" ELSE "false">>>>
    [] v[1] \in {"int", "float"} -> <<"number", v[2]>>
    [] v[1] = "str" -> <<"string", v[2]>>

\* json.load of a value: a number with a fraction is a float, any other an int
JsonDecode(t) ==
  CASE t[1] = "literal" ->
         IF t[2] = <<"null">> THEN PyNone
         ELSE IF t[2] = <<"true">> THEN PyTrue ELSE PyFalse
    [] t[1] = "number" ->
         IF \E k \in 1..Len(t[2]) : t[2][k] = "." THEN <<"float", t[2]>>
                                                 ELSE <<"int", t[2]>>
    [] t[1] = "string" -> <<"str", t[2]>>

EncodeDict(d) == [k \in 1..Len(d) |-> <<d[k][1], JsonEncode(d[k][2])>>]
DecodeDict(d) == [k \in 1..Len(d) |-> <<d[k][1], JsonDecode(d[k][2])>>]

\* json.dump(actions.to_dict(), f): the document written to the file
JsonDump(d) ==
  [metadata |-> EncodeDict(d.metadata),
   batch_actions |-> [k \in 1..Len(d.batch_actions) |-> EncodeDict(d.batch_actions[k])]]

\* json.load(f): the dictionary read from the file
JsonLoad(doc) ==
  [metadata |-> DecodeDict(doc.metadata),
   batch_actions |-> [k \in 1..Len(doc.batch_actions) |-> DecodeDict(doc.batch_actions[k])]]

\* the metadata save_actions adds before writing
SavedMetadata(sq) ==
  Update(Update(Update(sq.metadata, "version", PyStr("1.0")),
                "saved_at", PyStr("now")),
         "total_actions", PyInt(Str(Len(sq.batch_actions))[1]))

\* sequence_dict = sequence.to_dict()
ToDict ==
  /\ ~dictMade
  /\ sequence_dict' = SequenceToDict(actions)
  /\ dictMade' = TRUE
  /\ UNCHANGED <<notSeq, actions, file_content, file_exists, restored, restoredFrom>>

\* restored_sequence = ActionSequence.from_dict(sequence_dict)
FromDict ==
  /\ dictMade
  /\ restoredFrom = "none"
  /\ restored' = SequenceFromDict(sequence_dict)
  /\ restoredFrom' = "dict"
  /\ UNCHANGED <<notSeq, actions, sequence_dict, dictMade, file_content, file_exists>>

\* save_actions: the metadata of the sequence is updated in place, then the
\* document is written; a failing write returns False
SaveActions ==
  /\ ~file_exists
  /\ actions' = [actions EXCEPT !.metadata = SavedMetadata(actions)]
  /\ \E written \in BOOLEAN :
       /\ file_exists' = written
       /\ file_content' = IF written THEN JsonDump(SequenceToDict(actions'))
                                     ELSE file_content
  /\ UNCHANGED <<notSeq, sequence_dict, dictMade, restored, restoredFrom>>

\* load_actions: None without the file, else from_dict of the parsed document
LoadActions ==
  /\ restoredFrom = "none"
  /\ IF file_exists
     THEN /\ restored' = SequenceFromDict(JsonLoad(file_content))
          /\ restoredFrom' = "file"
     ELSE /\ restored' = restored
          /\ restoredFrom' = "no_file"
  /\ UNCHANGED <<notSeq, actions, sequence_dict, dictMade, file_content, file_exists>>

NextSeq ==
  \/ ToDict
  \/ FromDict
  \/ SaveActions
  \/ LoadActions

SpecSeq == InitSeq /\ [][NextSeq]_vars

\* ---------------------------------------------------------------------------
\* The browser during the batch loop: _process_single_batch_basic with
\* FormFiller.submit_form, the round selector and the recovery

\* the for loop is about to start over k batches (a state of Spec)
OrchestratorAtLoop(k) ==
  /\ max_retries = DefaultMaxRetries
  /\ error_recovery_enabled = TRUE
  /\ current_batch = 0
  /\ total_batches = k
  /\ form_input_ready = TRUE
  /\ voting_page_reached = TRUE
  /\ batch_data = TRUE
  /\ csvBatches = k
  /\ stats = ZeroStats
  /\ driver = "live"
  /\ pc = "for"
  /\ retry_count = 0
  /\ batch_success = FALSE
  /\ polls = 0
  /\ ret = "none"
  /\ is_running = TRUE
  /\ afterQueue = <<>>
  /\ uiStatus = "started"
  /\ attempts = [b \in Batches |-> 0]
  /\ marked = [b \in Batches |-> "none"]
  /\ ops = <<>>
  /\ stopSeen = FALSE
  /\ loopFinished = FALSE
  /\ settingsStable = TRUE
  /\ acc = {<<"is_running", "ui", "r">>, <<"is_running", "ui", "w">>,
            <<"voting_page_reached", "ui", "r">>,
            <<"voting_page_reached", "worker", "w">>,
            <<"driver", "worker", "w">>, <<"driver", "worker", "r">>,
            <<"batch_data", "worker", "r">>, <<"batch_data", "ui", "w">>,
            <<"form_input_ready", "ui", "w">>, <<"form_input_ready", "worker", "r">>}

\* the loop starts with the browser on the voting-input page
InitCycle ==
  /\ \E k \in 1..MaxBatches : OrchestratorAtLoop(k)
  /\ SplitIdle
  /\ FillIdle
  /\ CliIdle
  /\ SeqIdle
  /\ LoopsIdle
  /\ ReuseIdle
  /\ NavIdle
  /\ RoutinesIdle
  /\ AllIdle
  /\ RunIdle
  /\ ClickIdle
  /\ PopupIdle
  /\ PlayIdle
  /\ RoundIdle
  /\ page = "voting"
  /\ alert_open = FALSE
  /\ phase = "form-ready"
  /\ submitPc = "idle"
  /\ landed = "none"
  /\ call_result = "none"
  /\ served = <<0, 0, "none">>
  /\ addedIn = <<0, 0>>
  /\ nav_attempted = FALSE

\* the browser call the worker is blocked in
Token == <<current_batch, attempts[current_batch], pc>>

\* the site put the batch in the cart when the cart/confirmation page shows
\* ("Detected cart page - product added successfully"); the first attempt of
\* the batch that got there is remembered
Added(p) ==
  IF p = "cart" /\ addedIn[1] # current_batch
  THEN <<current_batch, attempts[current_batch]>>
  ELSE addedIn

\* state of the cycle once the dialog is confirmed, by the URL then shown
Landing(p) == IF p = "voting" THEN "still-voting-page" ELSE "cart-page"

\* state of the cycle once a navigation ended on page p
Arrived(p, ph) == IF p = "voting" THEN "form-ready" ELSE ph

\* _handle_cart_page_navigation on page p: the answer and the page it leaves.
\* On the voting-input page it answers True at once.  Elsewhere the link,
\* back and direct-URL methods answer True only on the voting-input page;
\* _navigate_to_voting_page answers True for any clicked link and the
\* emergency navigation for the toto index page; all may fail.
HandleCartPageNavigation(p) ==
  IF p = "voting"
  THEN {<<"ok", "voting">>}
  ELSE {<<"ok", "voting">>, <<"ok", "cart">>, <<"ok", "other">>,
        <<"false", "cart">>, <<"false", "other">>}

\* fill_voting_form runs: the checkboxes exist on the voting-input page only,
\* and an open alert makes every command fail
FillOnPage ==
  /\ pc = "fill"
  /\ served # Token
  /\ \E out \in (IF page = "voting" /\ ~alert_open THEN {"ok", "false"} ELSE {"false"}) :
       /\ call_result' = out
       /\ phase' = IF out = "ok" THEN "filled" ELSE "fill-failed"
  /\ served' = Token
  /\ UNCHANGED <<notCycle, nav_attempted, page, alert_open, submitPc, landed, addedIn>>

\* submit_form up to _try_click_cart_button: the site answers the click with
\* an alert or with an in-page dialog
SubmitClickCart ==
  /\ pc = "submit"
  /\ served # Token
  /\ submitPc = "idle"
  /\ landed' = "none"
  /\ addedIn' = addedIn
  /\ \E cart_success \in BOOLEAN :
       IF cart_success
       THEN /\ phase' = "dialog-pending"
            /\ alert_open' \in BOOLEAN
            /\ submitPc' = "immediate_alert"
       ELSE /\ submitPc' = "fallback"
            /\ UNCHANGED <<phase, alert_open>>
  /\ UNCHANGED <<notCycle, nav_attempted, page, call_result, served>>

\* the immediate alert check: an alert is accepted and True is returned,
\* whatever page the browser then shows
SubmitImmediateAlert ==
  /\ pc = "submit"
  /\ submitPc = "immediate_alert"
  /\ IF alert_open
     THEN /\ alert_open' = FALSE
          /\ \E p \in {"voting", "cart"} :
               /\ page' = p
               /\ landed' = p
               /\ addedIn' = Added(p)
               /\ phase' = Landing(p)
          /\ call_result' = "ok"
          /\ served' = Token
          /\ submitPc' = "idle"
     ELSE /\ alert_open' \in BOOLEAN
          /\ submitPc' = "status"
          /\ UNCHANGED <<page, landed, addedIn, phase, call_result, served>>
  /\ UNCHANGED <<notCycle, nav_attempted, nav_attempted>>

\* _check_form_status_after_click: an alert is accepted; without one an
\* error message or an empty required field answers False
SubmitStatusCheck ==
  /\ pc = "submit"
  /\ submitPc = "status"
  /\ IF alert_open
     THEN /\ alert_open' = FALSE
          /\ \E p \in {"voting", "cart"} :
               /\ page' = p
               /\ landed' = p
               /\ addedIn' = Added(p)
               /\ phase' = Landing(p)
          /\ submitPc' = "dialog"
          /\ UNCHANGED <<call_result, served>>
     ELSE \E status_ok \in BOOLEAN :
            IF status_ok
            THEN /\ submitPc' = "dialog"
                 /\ UNCHANGED <<alert_open, page, landed, addedIn, phase, call_result, served>>
            ELSE /\ phase' = "submit-failed"
                 /\ call_result' = "false"
                 /\ served' = Token
                 /\ submitPc' = "idle"
                 /\ UNCHANGED <<alert_open, page, landed, addedIn>>
  /\ UNCHANGED <<notCycle, nav_attempted, nav_attempted>>

\* _handle_confirmation_dialog: the dialog is confirmed (or taken as handled
\* by itself) and the browser shows the page the site answers with; False on
\* an exception
SubmitConfirmDialog ==
  /\ pc = "submit"
  /\ submitPc = "dialog"
  /\ \E handled \in BOOLEAN :
       IF handled
       THEN /\ alert_open' = FALSE
            /\ IF landed = "none"
               THEN \E p \in {"voting", "cart"} :
                      /\ page' = p
                      /\ landed' = p
                      /\ addedIn' = Added(p)
                      /\ phase' = Landing(p)
               ELSE UNCHANGED <<page, landed, addedIn, phase>>
            /\ submitPc' = "navigate"
            /\ UNCHANGED <<call_result, served>>
       ELSE /\ phase' = "submit-failed"
            /\ call_result' = "false"
            /\ served' = Token
            /\ submitPc' = "idle"
            /\ UNCHANGED <<alert_open, page, landed, addedIn>>
  /\ UNCHANGED <<notCycle, nav_attempted, nav_attempted>>

\* `if self._handle_cart_page_navigation(): return True / else: return False`
SubmitNavigateBack ==
  /\ pc = "submit"
  /\ submitPc = "navigate"
  /\ \E nav \in HandleCartPageNavigation(page) :
       /\ call_result' = nav[1]
       /\ page' = nav[2]
       /\ phase' = IF nav[1] = "ok" THEN Arrived(nav[2], phase) ELSE "navigation-failed"
  /\ served' = Token
  /\ submitPc' = "idle"
  /\ UNCHANGED <<notCycle, nav_attempted, alert_open, landed, addedIn>>

\* no cart button was clicked: the regular submit button is tried
SubmitFallbackClick ==
  /\ pc = "submit"
  /\ submitPc = "fallback"
  /\ \E clicked \in BOOLEAN :
       IF clicked
       THEN /\ phase' = "dialog-pending"
            /\ alert_open' \in BOOLEAN
            /\ submitPc' = "fallback_dialog"
            /\ UNCHANGED <<call_result, served>>
       ELSE /\ phase' = "submit-failed"
            /\ call_result' = "false"
            /\ served' = Token
            /\ submitPc' = "idle"
            /\ UNCHANGED alert_open
  /\ UNCHANGED <<notCycle, nav_attempted, page, landed, addedIn>>

\* after the regular submit button the dialog is handled, its answer is
\* ignored (an alert it failed on stays open) and True is returned
SubmitFallbackDialog ==
  /\ pc = "submit"
  /\ submitPc = "fallback_dialog"
  /\ alert_open' \in {FALSE, alert_open}
  /\ \E p \in {"voting", "cart"} :
       /\ page' = p
       /\ landed' = p
       /\ addedIn' = Added(p)
       /\ phase' = Landing(p)
  /\ call_result' = "ok"
  /\ served' = Token
  /\ submitPc' = "idle"
  /\ UNCHANGED <<notCycle, nav_attempted, nav_attempted>>

\* handle_alert(accept=True) after the submission
AlertOnPage ==
  /\ pc = "alert"
  /\ served # Token
  /\ alert_open' = FALSE
  /\ call_result' = "ok"
  /\ served' = Token
  /\ UNCHANGED <<notCycle, nav_attempted, page, phase, submitPc, landed, addedIn>>

\* click_round_link_on_addition_page: True once the link was clicked
NavLinkOnPage ==
  /\ pc = "nav_link"
  /\ served # Token
  /\ \E out \in {"ok", "false"} :
       /\ call_result' = out
       /\ page' = IF out = "ok" THEN "other" ELSE page
  /\ served' = Token
  /\ UNCHANGED <<notCycle, nav_attempted, alert_open, phase, submitPc, landed, addedIn>>

\* click_single_button: True once the button was clicked, on the single
\* voting page or not ("still consider success if URL changed")
NavSingleOnPage ==
  /\ pc = "nav_single"
  /\ served # Token
  /\ \E out \in {"ok", "false"}, p \in {"voting", "other"} :
       /\ call_result' = out
       /\ page' = IF out = "ok" THEN p ELSE page
       /\ phase' = IF out = "ok" THEN Arrived(p, phase) ELSE phase
  /\ served' = Token
  /\ UNCHANGED <<notCycle, nav_attempted, alert_open, submitPc, landed, addedIn>>

\* `if 'PGSPSL00001MoveSingleVoteSheet' not in current_url:` followed by
\* `if self.round_selector and self.current_batch > 1:`
RecoveryNavigates(p, cb) == p # "voting" /\ cb > 1

\* _attempt_error_recovery: alerts are handled; away from the voting-input
\* page it navigates only if current_batch > 1
RecoverOnPage ==
  /\ pc = "recover"
  /\ served # Token
  /\ alert_open' = FALSE
  /\ nav_attempted' = RecoveryNavigates(page, current_batch)
  /\ IF RecoveryNavigates(page, current_batch)
     THEN \E p \in {page, "other", "voting"} :
            /\ page' = p
            /\ phase' = Arrived(p, phase)
     ELSE UNCHANGED <<page, phase>>
  /\ call_result' = "ok"
  /\ served' = Token
  /\ UNCHANGED <<notCycle, submitPc, landed, addedIn>>

\* the browser call returns to the batch loop with the answer it computed
CycleStepReturn(op, nextpc) ==
  /\ pc = op
  /\ served = Token
  /\ StepReturnWith(op, nextpc, call_result)

CycleNavLinkReturn   == CycleStepReturn("nav_link", "nav_single")
CycleNavSingleReturn == CycleStepReturn("nav_single", "fill")
CycleFillReturn      == CycleStepReturn("fill", "submit")
CycleSubmitReturn    == CycleStepReturn("submit", "alert")

CycleAlertReturn ==
  /\ pc = "alert"
  /\ served = Token
  /\ AlertReturn

CycleRecoverReturn ==
  /\ pc = "recover"
  /\ served = Token
  /\ RecoverReturn

NextCycle ==
  \/ ForNext
  \/ WhileTest
  \/ SleepReturn
  \/ RecoverOnPage
  \/ CycleRecoverReturn
  \/ NavLinkOnPage
  \/ CycleNavLinkReturn
  \/ NavSingleOnPage
  \/ CycleNavSingleReturn
  \/ FillOnPage
  \/ CycleFillReturn
  \/ SubmitClickCart
  \/ SubmitImmediateAlert
  \/ SubmitStatusCheck
  \/ SubmitConfirmDialog
  \/ SubmitNavigateBack
  \/ SubmitFallbackClick
  \/ SubmitFallbackDialog
  \/ CycleSubmitReturn
  \/ AlertOnPage
  \/ CycleAlertReturn

SpecCycle == InitCycle /\ [][NextCycle]_vars

\* ---------------------------------------------------------------------------
\* The other batch loops: _process_data_with_actions (execute mode),
\* VotingAutomationSystem._process_data_batches and
\* CompleteTotoAutomation._process_all_batches

LoopKinds == {"actions", "legacy", "complete"}

\* a loop is entered with its batches
InitLoops ==
  /\ OrchestratorIdle
  /\ SplitIdle
  /\ FillIdle
  /\ CliIdle
  /\ SeqIdle
  /\ CycleIdle
  /\ ReuseIdle
  /\ NavIdle
  /\ RoutinesIdle
  /\ AllIdle
  /\ RunIdle
  /\ ClickIdle
  /\ PopupIdle
  /\ PlayIdle
  /\ RoundIdle
  /\ loop_kind \in LoopKinds
  /\ loop_batches \in 1..MaxLoopBatches
  /\ batch_index = 0
  /\ processed = <<>>
  /\ loop_stats = [successful_batches |-> 0, failed_batches |-> 0]
  /\ loop_ret = "none"
  /\ loopPc = "for"

\* what the loop does after a failed batch: execute mode and the legacy loop
\* `return False`, CompleteTotoAutomation goes on with the next batch
AfterFailedBatch(kind) == IF kind = "complete" THEN "continue" ELSE "return"

\* the counters after a batch: the legacy loop keeps none
CountBatch(kind, st, ok) ==
  IF kind = "legacy" THEN st
  ELSE IF ok THEN [st EXCEPT !.successful_batches = @ + 1]
  ELSE [st EXCEPT !.failed_batches = @ + 1]

\* `if batch_index < len(batches) - 1: time.sleep(2)`
AfterBatch(i, n) == IF i < n - 1 THEN "pause" ELSE "next"

\* the result once every batch was processed: True in execute mode and in the
\* legacy loop, successful_batches > 0 in CompleteTotoAutomation
LoopResult(kind, st) ==
  IF kind = "complete" /\ st.successful_batches = 0 THEN "F" ELSE "T"

\* one pass of the for loop body for a batch that succeeds or fails
LoopBody(kind) ==
  /\ loop_kind = kind
  /\ loopPc = "for"
  /\ batch_index < loop_batches
  /\ \E ok \in BOOLEAN :
       /\ processed' = Append(processed, IF ok THEN "ok" ELSE "failed")
       /\ loop_stats' = CountBatch(kind, loop_stats, ok)
       /\ IF ~ok /\ AfterFailedBatch(kind) = "return"
          THEN /\ loop_ret' = "F"
               /\ loopPc' = "done"
               /\ batch_index' = batch_index
          ELSE /\ loop_ret' = loop_ret
               /\ loopPc' = IF AfterBatch(batch_index, loop_batches) = "pause"
                            THEN "pause" ELSE "for"
               /\ batch_index' = IF loopPc' = "pause" THEN batch_index
                                                      ELSE batch_index + 1
  /\ UNCHANGED <<notLoops, loop_kind, loop_batches>>

ActionsLoopBody  == LoopBody("actions")
LegacyLoopBody   == LoopBody("legacy")
CompleteLoopBody == LoopBody("complete")

\* time.sleep(2) between two batches returns
LoopPause ==
  /\ loopPc = "pause"
  /\ loopPc' = "for"
  /\ batch_index' = batch_index + 1
  /\ UNCHANGED <<notLoops, loop_kind, loop_batches, processed, loop_stats, loop_ret>>

\* the for loop is exhausted: the loop returns its result
LoopEnd ==
  /\ loopPc = "for"
  /\ batch_index >= loop_batches
  /\ loop_ret' = LoopResult(loop_kind, loop_stats)
  /\ loopPc' = "done"
  /\ UNCHANGED <<notLoops, loop_kind, loop_batches, batch_index, processed, loop_stats>>

NextLoops ==
  \/ ActionsLoopBody
  \/ LegacyLoopBody
  \/ CompleteLoopBody
  \/ LoopPause
  \/ LoopEnd

SpecLoops == InitLoops /\ [][NextLoops]_vars

\* ---------------------------------------------------------------------------
\* Runs started one after the other from the GUI: start_automation builds a
\* new EnhancedAutomationSystem, start_complete_workflow keeps the one it has
\* and calls _process_data_batches on it

\* the GUI is up, no run was started yet (self.automation_system = None)
InitReuse ==
  /\ OrchestratorIdle
  /\ SplitIdle
  /\ FillIdle
  /\ CliIdle
  /\ SeqIdle
  /\ CycleIdle
  /\ LoopsIdle
  /\ ReuseIdle
  /\ NavIdle
  /\ RoutinesIdle
  /\ AllIdle
  /\ RunIdle
  /\ ClickIdle
  /\ PopupIdle
  /\ PlayIdle
  /\ RoundIdle

\* _process_data_batches only sets start_time: the counters are kept
StatsAtLoopStart(st) == st

\* a run begins over n batches
BeginInvocation(n) ==
  /\ invPc = "idle"
  /\ invocation < MaxInvocations
  /\ invocation' = invocation + 1
  /\ inv_batches' = n
  /\ inv_index' = 0
  /\ inv_successes' = 0
  /\ inv_ret' = "none"
  /\ invPc' = "for"

\* start_automation: self.automation_system = EnhancedAutomationSystem(...),
\* whose __init__ zeroes the counters
StartAutomationRun ==
  /\ \E n \in 1..MaxBatches : BeginInvocation(n)
  /\ processing_stats' = StatsAtLoopStart(ZeroStats)
  /\ UNCHANGED notReuse

\* start_complete_workflow: a new instance only `if not
\* self.automation_system`, otherwise the instance of the earlier run
StartCompleteWorkflow ==
  /\ \E n \in 1..MaxBatches : BeginInvocation(n)
  /\ processing_stats' = StatsAtLoopStart(IF invocation = 0 THEN ZeroStats
                                                            ELSE processing_stats)
  /\ UNCHANGED notReuse

\* a batch leaves its retry loop, successful or not
InvocationBatch ==
  /\ invPc = "for"
  /\ inv_index < inv_batches
  /\ inv_index' = inv_index + 1
  /\ \E ok \in BOOLEAN :
       /\ processing_stats' = IF ok
            THEN [processing_stats EXCEPT !.successful_batches = @ + 1]
            ELSE CountFailedBatch(processing_stats)
       /\ inv_successes' = IF ok THEN inv_successes + 1 ELSE inv_successes
  /\ UNCHANGED <<notReuse, invocation, inv_batches, inv_ret, invPc>>

\* the for loop is exhausted: success = successful_batches > 0
InvocationReturn ==
  /\ invPc = "for"
  /\ inv_index >= inv_batches
  /\ inv_ret' = IF SuccessPredicate(processing_stats) THEN "T" ELSE "F"
  /\ invPc' = "returned"
  /\ UNCHANGED <<notReuse, processing_stats, invocation, inv_batches, inv_index,
                 inv_successes>>

\* automation_finished / _complete_workflow_finished: the buttons are enabled
\* again
InvocationFinished ==
  /\ invPc = "returned"
  /\ invPc' = "idle"
  /\ UNCHANGED <<notReuse, processing_stats, invocation, inv_batches, inv_index,
                 inv_successes, inv_ret>>

NextReuse ==
  \/ StartAutomationRun
  \/ StartCompleteWorkflow
  \/ InvocationBatch
  \/ InvocationReturn
  \/ InvocationFinished

SpecReuse == InitReuse /\ [][NextReuse]_vars

\* ---------------------------------------------------------------------------
\* The way back from the cart page: FormFiller._handle_confirmation_dialog,
\* _check_browser_alive, _handle_cart_page_navigation and
\* _navigate_to_voting_page, called by submit_form inside the batch loop

Pages == {"cart", "voting", "other"}

\* what _handle_confirmation_dialog met: a JavaScript alert, a redirect to the
\* confirmation page, a modal button, nothing but the Enter key went through,
\* nothing at all, or an exception outside its inner try blocks
DialogOutcomes == {"alert", "redirect", "modal", "keys", "nothing", "raised"}

\* variant: a dialog that was never found fails the submission
NoDialogFound_Fatal == FALSE
\* return True  # Continue anyway as dialog might have been auto-handled
NoDialogFound == TRUE

\* the result of _handle_confirmation_dialog
HandleConfirmationDialog(d) ==
  IF d = "raised" THEN FALSE
  ELSE IF d = "nothing" THEN NoDialogFound
  ELSE TRUE

\* variant: the answer of the probe is not looked at
AfterProbe_Ignore(alive, next) == next
\* if not self._check_browser_alive(): return False
AfterProbe(alive, next) == IF alive THEN next ELSE "returned"

\* if time.time() - start_time > max_navigation_time
OverBudget(t) == t > NavigationBudget

\* variant: the next method is tried whatever page was reached
AfterMethod_GoOn(new_url, next) == next
\* if "PGSPSL00001MoveSingleVoteSheet.form" in new_url: return True
AfterMethod(new_url, next) == IF new_url = "voting" THEN "returned" ELSE next

\* the branch taken after current_url and page_source were read: the cart
\* branch also for a voting page whose source holds the cart words
Classify(p, b) ==
  IF b # "alive" THEN {"except"}
  ELSE {"except"} \cup (CASE p = "cart" -> {"links"}
                          [] p = "voting" -> {"links", "returned"}
                          [] OTHER -> {"fallback"})

\* the first batch of a one-batch run is about to start with a live session
InitNav ==
  /\ OrchestratorAtLoop(1)
  /\ SplitIdle
  /\ FillIdle
  /\ nameSite = "none"
  /\ CliIdle
  /\ SeqIdle
  /\ CycleIdle
  /\ LoopsIdle
  /\ ReuseIdle
  /\ browser = "alive"
  /\ RoutinesIdle
  /\ AllIdle
  /\ RunIdle
  /\ ClickIdle
  /\ PopupIdle
  /\ PlayIdle
  /\ RoundIdle
  /\ dialog = "none"
  /\ navPc = "idle"
  /\ link_index = 0
  /\ clicks = 0
  /\ elapsed = 0
  /\ nav_page = "none"
  /\ nav_result = "none"
  /\ started = {}
  /\ reached_by = "none"
  /\ last_start = 0
  /\ found_dead = FALSE
  /\ nav_for = 0

\* the session dies while the procedure runs
BrowserCrash ==
  /\ navPc \notin {"idle", "returned"}
  /\ browser = "alive"
  /\ browser' = "dead"
  /\ UNCHANGED <<notNav, dialog, navPc, link_index, clicks, elapsed, nav_page,
                 nav_result, started, reached_by, last_start, found_dead, nav_for>>

\* fill_voting_form returns: False on a dead session, where every lookup raises
NavFillReturn ==
  /\ pc = "fill"
  /\ \E out \in (IF browser = "alive" THEN {"ok", "false"} ELSE {"false"}) :
       StepReturnWith("fill", "submit", out)

\* submit_form up to the call of _handle_cart_page_navigation: the cart
\* button is clicked and _handle_confirmation_dialog answers; on a dead
\* session the outer except of submit_form returns False
SubmitToDialog ==
  /\ pc = "submit"
  /\ nav_for # attempts[current_batch]
  /\ nav_for' = attempts[current_batch]
  /\ \E d \in (IF browser = "alive" THEN DialogOutcomes ELSE {"none"}),
        p \in Pages :
       /\ dialog' = d
       /\ IF d # "none" /\ HandleConfirmationDialog(d)
          THEN /\ navPc' = "start"
               /\ nav_result' = "none"
               /\ nav_page' = p
          ELSE /\ navPc' = "returned"
               /\ nav_result' = "false"
               /\ nav_page' = "none"
  /\ link_index' = 0
  /\ clicks' = 0
  /\ elapsed' = 0
  /\ started' = {}
  /\ reached_by' = "none"
  /\ last_start' = 0
  /\ UNCHANGED <<notNav, browser, found_dead>>

\* start_time = time.time(); if not self._check_browser_alive(): return False
NavProbeAtEntry ==
  /\ navPc = "start"
  /\ navPc' = AfterProbe(browser = "alive", "classify")
  /\ found_dead' = (found_dead \/ browser # "alive")
  /\ nav_result' = IF navPc' = "returned" THEN "false" ELSE nav_result
  /\ UNCHANGED <<notNav, browser, dialog, link_index, clicks, elapsed, nav_page,
                 started, reached_by, last_start, nav_for>>

\* current_url and page_source are read and the branch is chosen
NavClassify ==
  /\ navPc = "classify"
  /\ \E branch \in Classify(nav_page, browser) :
       /\ navPc' = branch
       /\ nav_result' = IF branch = "returned" THEN "ok" ELSE nav_result
  /\ UNCHANGED <<notNav, browser, dialog, link_index, clicks, elapsed, nav_page,
                 started, reached_by, last_start, found_dead, nav_for>>

\* Method 1, head of `for link_xpath in voting_page_links`: the budget test,
\* the probe, then the search for the elements of the next xpath
NavNextXpath ==
  /\ navPc = "links"
  /\ IF link_index = VotingPageLinks
     THEN /\ navPc' = "back"
          /\ UNCHANGED <<link_index, clicks, nav_result, found_dead>>
     ELSE IF OverBudget(elapsed)
     THEN /\ navPc' = "returned"
          /\ nav_result' = "false"
          /\ UNCHANGED <<link_index, clicks, found_dead>>
     ELSE /\ navPc' = AfterProbe(browser = "alive", "elements")
          /\ found_dead' = (found_dead \/ browser # "alive")
          /\ nav_result' = IF navPc' = "returned" THEN "false" ELSE nav_result
          /\ link_index' = IF navPc' = "returned" THEN link_index ELSE link_index + 1
          /\ clicks' = 0
  /\ UNCHANGED <<notNav, browser, dialog, elapsed, nav_page, started, reached_by,
                 last_start, nav_for>>

\* Method 1, `for element in elements`: a displayed and enabled element is
\* clicked, three seconds pass and the new URL is looked at
NavClickLink ==
  /\ navPc = "elements"
  /\ browser = "alive"
  /\ clicks < MaxElements
  /\ clicks' = clicks + 1
  /\ started' = started \cup {"link"}
  /\ last_start' = elapsed
  /\ elapsed' = elapsed + ClickWait
  /\ \E p \in Pages :
       /\ nav_page' = p
       /\ navPc' = AfterMethod(p, "elements")
       /\ reached_by' = IF p = "voting" THEN "link" ELSE reached_by
  /\ nav_result' = IF navPc' = "returned" THEN "ok" ELSE nav_result
  /\ UNCHANGED <<notNav, browser, dialog, link_index, found_dead, nav_for>>

\* Method 1: no element is left for this xpath, or an exception of the
\* search was caught (`continue`)
NavElementsDone ==
  /\ navPc = "elements"
  /\ navPc' = "links"
  /\ UNCHANGED <<notNav, browser, dialog, link_index, clicks, elapsed, nav_page,
                 nav_result, started, reached_by, last_start, found_dead, nav_for>>

\* Method 2: self.driver.back(); an exception is caught
NavBack ==
  /\ navPc = "back"
  /\ started' = started \cup {"back"}
  /\ last_start' = elapsed
  /\ IF browser = "alive"
     THEN /\ elapsed' = elapsed + ClickWait
          /\ \E p \in Pages :
               /\ nav_page' = p
               /\ navPc' = AfterMethod(p, "direct")
               /\ reached_by' = IF p = "voting" THEN "back" ELSE reached_by
     ELSE /\ navPc' = "direct"
          /\ UNCHANGED <<elapsed, nav_page, reached_by>>
  /\ nav_result' = IF navPc' = "returned" THEN "ok" ELSE nav_result
  /\ UNCHANGED <<notNav, browser, dialog, link_index, clicks, found_dead, nav_for>>

\* Method 3: self.driver.get(voting_url) if the cart URL is on the store host
NavDirect ==
  /\ navPc = "direct"
  /\ \E on_store \in BOOLEAN :
       IF on_store
       THEN /\ started' = started \cup {"direct"}
            /\ last_start' = elapsed
            /\ IF browser = "alive"
               THEN /\ elapsed' = elapsed + ClickWait
                    /\ \E p \in {"voting", "other"} :
                         /\ nav_page' = p
                         /\ navPc' = AfterMethod(p, "fallback")
                         /\ reached_by' = IF p = "voting" THEN "direct"
                                                          ELSE reached_by
               ELSE /\ navPc' = "fallback"
                    /\ UNCHANGED <<elapsed, nav_page, reached_by>>
       ELSE /\ navPc' = "fallback"
            /\ UNCHANGED <<started, last_start, elapsed, nav_page, reached_by>>
  /\ nav_result' = IF navPc' = "returned" THEN "ok" ELSE nav_result
  /\ UNCHANGED <<notNav, browser, dialog, link_index, clicks, found_dead, nav_for>>

\* Method 4 and the else branch: _navigate_to_voting_page clicks the first
\* displayed link it finds and returns True without looking at the URL
NavFallback ==
  /\ navPc = "fallback"
  /\ started' = started \cup {"fallback"}
  /\ last_start' = elapsed
  /\ navPc' = "returned"
  /\ IF browser = "alive"
     THEN \E clicked \in BOOLEAN, p \in Pages :
            /\ nav_result' = IF clicked THEN "ok" ELSE "false"
            /\ nav_page' = IF clicked THEN p ELSE nav_page
     ELSE /\ nav_result' = "false"
          /\ nav_page' = nav_page
  /\ UNCHANGED <<notNav, browser, dialog, link_index, clicks, elapsed, reached_by,
                 found_dead, nav_for>>

\* the outer except: the probe, then the emergency navigation to the index
NavExcept ==
  /\ navPc = "except"
  /\ navPc' = "returned"
  /\ found_dead' = (found_dead \/ browser # "alive")
  /\ IF AfterProbe(browser = "alive", "emergency") = "emergency"
     THEN /\ started' = started \cup {"emergency"}
          /\ last_start' = elapsed
          /\ IF browser = "alive"
             THEN /\ elapsed' = elapsed + ClickWait
                  /\ \E out \in {"ok", "false"} :
                       /\ nav_result' = out
                       /\ nav_page' = "other"
             ELSE /\ nav_result' = "false"
                  /\ UNCHANGED <<elapsed, nav_page>>
     ELSE /\ nav_result' = "false"
          /\ UNCHANGED <<started, last_start, elapsed, nav_page>>
  /\ UNCHANGED <<notNav, browser, dialog, link_index, clicks, reached_by, nav_for>>

\* submit_form returns what the procedure answered
NavSubmitReturn ==
  /\ pc = "submit"
  /\ nav_for = attempts[current_batch]
  /\ navPc = "returned"
  /\ StepReturnWith("submit", "alert", nav_result)

NextNav ==
  \/ ForNext
  \/ WhileTest
  \/ SleepReturn
  \/ RecoverReturn
  \/ NavFillReturn
  \/ SubmitToDialog
  \/ NavProbeAtEntry
  \/ NavClassify
  \/ NavNextXpath
  \/ NavClickLink
  \/ NavElementsDone
  \/ NavBack
  \/ NavDirect
  \/ NavFallback
  \/ NavExcept
  \/ BrowserCrash
  \/ NavSubmitReturn
  \/ AlertReturn

SpecNav == InitNav /\ [][NextNav]_vars

\* ---------------------------------------------------------------------------
\* The routines the batch loop calls: FormFiller.fill_voting_form,
\* FormFiller.submit_form and WebDriverManager.handle_alert, each a try block
\* around its whole body

RoutineNames == {"fill", "submit", "alert"}

\* a step of a routine: `guard` says whether the step sits in an inner try
\* whose handler logs and goes on, `can` what the step may decide by itself
Step(guard, can) == [guard |-> guard, can |-> can]

\* fill_voting_form for one cell: len(batch_data), the row and its value,
\* then _click_checkbox
FillSteps ==
  <<Step("bare", {"ok"}), Step("bare", {"ok", "false"}),
    Step("bare", {"ok", "false"})>>

\* submit_form: pre-clean, scrolling, the search for clickables, the second
\* pre-clean, the analysis of the buttons, _try_click_cart_button, the
\* immediate alert, the status check, _handle_confirmation_dialog, the read
\* of current_url and _handle_cart_page_navigation
SubmitSteps ==
  <<Step("swallow", {"ok"}), Step("swallow", {"ok"}), Step("swallow", {"ok"}),
    Step("swallow", {"ok"}), Step("swallow", {"ok"}), Step("bare", {"ok", "false"}),
    Step("swallow", {"ok", "true"}), Step("bare", {"ok", "false", "true"}),
    Step("bare", {"ok", "false"}), Step("bare", {"ok"}),
    Step("bare", {"ok", "false"})>>

\* handle_alert: the assert, the wait for the alert (TimeoutException gives
\* False), switch_to.alert, alert.text and accept()
AlertSteps ==
  <<Step("bare", {"ok"}), Step("bare", {"ok", "false"}), Step("bare", {"ok"}),
    Step("bare", {"ok"}), Step("bare", {"ok"})>>

RoutineSteps(r) ==
  CASE r = "fill" -> FillSteps
    [] r = "submit" -> SubmitSteps
    [] OTHER -> AlertSteps

\* variant: the exception leaves the routine
OuterExcept_Reraise(kind) == "raised"
\* `except Exception as e: ... return False` around the whole body; a
\* KeyboardInterrupt or SystemExit is no Exception and passes
OuterExcept(kind) == IF kind = "exception" THEN "False" ELSE "raised"

\* one of the routines is called
InitRoutines ==
  /\ OrchestratorIdle
  /\ SplitIdle
  /\ FillIdle
  /\ nameSite = "none"
  /\ CliIdle
  /\ SeqIdle
  /\ CycleIdle
  /\ LoopsIdle
  /\ ReuseIdle
  /\ NavIdle
  /\ routine \in RoutineNames
  /\ AllIdle
  /\ RunIdle
  /\ ClickIdle
  /\ PopupIdle
  /\ PlayIdle
  /\ RoundIdle
  /\ step_at = 1
  /\ swallowed = 0
  /\ cause = "none"
  /\ answer = "none"
  /\ caller_got = "none"

\* the step the routine is at runs: it goes through, decides the result,
\* or something is raised in it
RoutineStep ==
  /\ answer = "none"
  /\ LET st == RoutineSteps(routine)[step_at]
         last == step_at = Len(RoutineSteps(routine))
     IN \E ev \in st.can \cup {"exception", "interrupt"} :
          IF ev = "ok" \/ (ev = "exception" /\ st.guard = "swallow")
          THEN /\ swallowed' = IF ev = "exception" THEN swallowed + 1 ELSE swallowed
               /\ IF last
                  THEN /\ answer' = "True"
                       /\ UNCHANGED step_at
                  ELSE /\ step_at' = step_at + 1
                       /\ UNCHANGED answer
               /\ UNCHANGED cause
          ELSE /\ cause' = ev
               /\ answer' = CASE ev = "false" -> "False"
                              [] ev = "true" -> "True"
                              [] OTHER -> OuterExcept(ev)
               /\ UNCHANGED <<step_at, swallowed>>
  /\ UNCHANGED <<notRoutines, routine, caller_got>>

\* the caller in _process_single_batch_basic gets the answer
RoutineReturn ==
  /\ answer # "none"
  /\ caller_got = "none"
  /\ caller_got' = answer
  /\ UNCHANGED <<notRoutines, routine, step_at, swallowed, cause, answer>>

NextRoutines ==
  \/ RoutineStep
  \/ RoutineReturn

SpecRoutines == InitRoutines /\ [][NextRoutines]_vars

\* ---------------------------------------------------------------------------
\* The process-all-batches mode of EnhancedAutomationGUI: start_all_batches,
\* process_next_batch, check_current_batch_completion and
\* complete_all_batches_processing, beside the worker thread of the run

\* the window is open and no run was started
InitAll ==
  /\ OrchestratorIdle
  /\ SplitIdle
  /\ FillIdle
  /\ nameSite = "none"
  /\ CliIdle
  /\ SeqIdle
  /\ CycleIdle
  /\ LoopsIdle
  /\ ReuseIdle
  /\ NavIdle
  /\ RoutinesIdle
  /\ processing_all_batches = FALSE
  /\ current_batch_index = 0
  /\ selected_count = 0
  /\ RunIdle
  /\ ClickIdle
  /\ PopupIdle
  /\ PlayIdle
  /\ RoundIdle
  /\ sys_ready = FALSE
  /\ check_timer = FALSE
  /\ handed = 0
  /\ completion_reported = FALSE
  /\ gui_worker = "none"
  /\ runs = 0
  /\ gui_running = FALSE

\* `if self.automation_system and not self.automation_system.form_input_ready`
BatchLooksComplete(ready) == ~ready

\* process_next_batch with the flag and the index as they will be: either
\* complete_all_batches_processing, or the batch is handed to the system
\* (set_batch_data, start_form_input) and the check is scheduled
ProcessNextBatch(processing, index) ==
  IF ~processing \/ index >= selected_count
  THEN /\ processing_all_batches' = FALSE
       /\ completion_reported' = TRUE
       /\ check_timer' = FALSE
       /\ UNCHANGED <<sys_ready, handed>>
  ELSE /\ processing_all_batches' = processing
       /\ sys_ready' = TRUE
       /\ handed' = handed + 1
       /\ check_timer' = TRUE
       /\ UNCHANGED completion_reported

\* start_automation: a new EnhancedAutomationSystem and its worker thread,
\* which gets to the wait for the authorization
AllStartAutomation ==
  /\ ~gui_running
  /\ gui_worker = "none"
  /\ runs < MaxInvocations
  /\ runs' = runs + 1
  /\ gui_running' = TRUE
  /\ sys_ready' = FALSE
  /\ gui_worker' = "wait_auth"
  /\ UNCHANGED <<notAll, processing_all_batches, current_batch_index, selected_count,
                 check_timer, handed, completion_reported>>

\* start_all_batches with the voting page ready and some batches selected
StartAllBatches ==
  /\ gui_running
  /\ gui_worker # "none"
  /\ ~check_timer
  /\ \E n \in 1..MaxLoopBatches :
       /\ selected_count' = n
       /\ current_batch_index' = 0
       /\ handed' = 1
       /\ completion_reported' = FALSE
       /\ processing_all_batches' = TRUE
       /\ sys_ready' = TRUE
       /\ check_timer' = TRUE
  /\ UNCHANGED <<notAll, gui_worker, runs, gui_running>>

\* check_current_batch_completion, called by the timer: the next batch if
\* form_input_ready is not set, otherwise the same check two seconds later
CheckCurrentBatchCompletion ==
  /\ check_timer
  /\ IF BatchLooksComplete(sys_ready)
     THEN /\ current_batch_index' = current_batch_index + 1
          /\ ProcessNextBatch(processing_all_batches, current_batch_index + 1)
     ELSE UNCHANGED <<current_batch_index, processing_all_batches, sys_ready,
                      handed, check_timer, completion_reported>>
  /\ UNCHANGED <<notAll, selected_count, gui_worker, runs, gui_running>>

\* _wait_for_form_input_authorization reads the flag: the batch loop starts,
\* or the wait times out
WorkerAuthorization ==
  /\ gui_worker = "wait_auth"
  /\ gui_worker' = IF AuthorizationGranted(sys_ready) THEN "loop" ELSE "timed_out"
  /\ UNCHANGED <<notAll, processing_all_batches, current_batch_index, selected_count,
                 sys_ready, check_timer, handed, completion_reported, runs,
                 gui_running>>

\* _process_data_batches has processed self.batch_data and the run returns
WorkerLoopDone ==
  /\ gui_worker = "loop"
  /\ gui_worker' = "done"
  /\ UNCHANGED <<notAll, processing_all_batches, current_batch_index, selected_count,
                 sys_ready, check_timer, handed, completion_reported, runs,
                 gui_running>>

\* automation_finished on the UI thread
AllAutomationFinished ==
  /\ gui_worker \in {"done", "timed_out"}
  /\ gui_worker' = "none"
  /\ gui_running' = FALSE
  /\ processing_all_batches' = FALSE
  /\ current_batch_index' = 0
  /\ UNCHANGED <<notAll, selected_count, sys_ready, check_timer, handed,
                 completion_reported, runs>>

NextAll ==
  \/ AllStartAutomation
  \/ StartAllBatches
  \/ CheckCurrentBatchCompletion
  \/ WorkerAuthorization
  \/ WorkerLoopDone
  \/ AllAutomationFinished

SpecAll == InitAll /\ [][NextAll]_vars

\* the Tk timer fires and the worker thread runs; the user need not act
SpecAllFair ==
  /\ SpecAll
  /\ WF_vars(CheckCurrentBatchCompletion)
  /\ WF_vars(WorkerAuthorization)
  /\ WF_vars(WorkerLoopDone)
  /\ WF_vars(AllAutomationFinished)

\* ---------------------------------------------------------------------------
\* EnhancedAutomationSystem.run_automation: the try block, its handlers and
\* the finally clause with _cleanup and WebDriverManager.quit_driver

RunModes == {"record", "execute", "basic"}

\* the calls a mode function makes, each able to end the run
ModeSteps(mode) ==
  CASE mode = "record" -> <<"navigate", "start_session", "record", "save">>
    [] mode = "execute" -> <<"validate", "load_data", "load_actions", "navigate",
                             "process">>
    [] OTHER -> <<"validate", "load_data", "navigate", "wait_page", "process">>

\* how a call can end the try block: False returned, or something raised
RunFailures == {"false", "interrupt", "exception", "exit"}

\* variant: _cleanup is called only when the try block returned
ReachesCleanup_OnReturn(exit) == exit \in {"true", "false"}
\* finally: self._cleanup()
ReachesCleanup(exit) == TRUE

\* except KeyboardInterrupt: return False / except Exception: return False;
\* any other BaseException goes on to the caller after the finally clause
RunResult(exit) ==
  CASE exit = "true" -> "T"
    [] exit \in {"false", "interrupt", "exception"} -> "F"
    [] OTHER -> "raised"

\* run_automation is called on a fresh system
InitRun ==
  /\ OrchestratorIdle
  /\ SplitIdle
  /\ FillIdle
  /\ nameSite = "none"
  /\ CliIdle
  /\ SeqIdle
  /\ CycleIdle
  /\ LoopsIdle
  /\ ReuseIdle
  /\ NavIdle
  /\ RoutinesIdle
  /\ AllIdle
  /\ run_mode \in RunModes
  /\ ClickIdle
  /\ PopupIdle
  /\ PlayIdle
  /\ RoundIdle
  /\ run_pc = "setup"
  /\ run_step = 0
  /\ run_exit = "none"
  /\ run_driver = "none"
  /\ quit_calls = 0
  /\ run_ret = "none"

\* _setup_webdriver: setup_driver creates the session or fails, or
\* something is raised with or without a session
RunSetup ==
  /\ run_pc = "setup"
  /\ \E out \in {"ok"} \cup RunFailures, made \in BOOLEAN :
       /\ out = "ok" => made
       /\ out = "false" => ~made
       /\ run_driver' = IF made THEN "live" ELSE "none"
       /\ IF out = "ok"
          THEN /\ run_pc' = "mode"
               /\ run_step' = 1
               /\ UNCHANGED run_exit
          ELSE /\ run_pc' = "finally"
               /\ run_exit' = out
               /\ UNCHANGED run_step
  /\ UNCHANGED <<notRun, run_mode, quit_calls, run_ret>>

\* the next call of _run_record_mode, _run_execute_mode or _run_basic_mode
RunModeStep ==
  /\ run_pc = "mode"
  /\ \E out \in {"ok"} \cup RunFailures :
       IF out = "ok" /\ run_step < Len(ModeSteps(run_mode))
       THEN /\ run_step' = run_step + 1
            /\ UNCHANGED <<run_pc, run_exit>>
       ELSE /\ run_pc' = "finally"
            /\ run_exit' = IF out = "ok" THEN "true" ELSE out
            /\ UNCHANGED run_step
  /\ UNCHANGED <<notRun, run_mode, run_driver, quit_calls, run_ret>>

\* the finally clause: _cleanup calls quit_driver, which calls driver.quit()
\* if there is a driver and sets self.driver = None whatever quit() did
RunFinally ==
  /\ run_pc = "finally"
  /\ IF ReachesCleanup(run_exit)
     THEN /\ run_driver' = "none"
          /\ quit_calls' = IF run_driver = "live" THEN quit_calls + 1 ELSE quit_calls
     ELSE UNCHANGED <<run_driver, quit_calls>>
  /\ run_pc' = "returning"
  /\ UNCHANGED <<notRun, run_mode, run_step, run_exit, run_ret>>

\* the call returns, or lets the exception it did not handle go on
RunReturn ==
  /\ run_pc = "returning"
  /\ run_ret' = RunResult(run_exit)
  /\ run_pc' = "returned"
  /\ UNCHANGED <<notRun, run_mode, run_step, run_exit, run_driver, quit_calls>>

NextRun ==
  \/ RunSetup
  \/ RunModeStep
  \/ RunFinally
  \/ RunReturn

SpecRun == InitRun /\ [][NextRun]_vars

\* ---------------------------------------------------------------------
\* FormFiller._click_checkbox: lookup and click of one cell
\* ---------------------------------------------------------------------

\* what find_element can do: return the element, raise
\* NoSuchElementException, or raise something else (session lost,
\* invalid selector)
LookupOutcomes == {"found", "missing", "error"}

\* what a click attempt can do: the checkbox is selected afterwards, the
\* click went through without selecting it, or the click raised
ClickMethodOutcomes == {"selected", "unselected", "raised"}

\* the order of the click methods in _safe_click_checkbox
ClickOrder == <<"native", "js", "wait">>

\* the lookups of _find_checkbox_by_name: By.NAME and the three
\* alternative_selectors
LookupOrder == <<"name", "css", "css", "css">>

IsPrefix(s, t) == Len(s) <= Len(t) /\ \A i \in 1..Len(s) : s[i] = t[i]

\* one cell of a page: the page's answers are fixed when the cell is clicked
InitClick ==
  /\ OrchestratorIdle
  /\ SplitIdle
  /\ FillIdle
  /\ nameSite = "none"
  /\ CliIdle
  /\ SeqIdle
  /\ CycleIdle
  /\ LoopsIdle
  /\ ReuseIdle
  /\ NavIdle
  /\ RoutinesIdle
  /\ AllIdle
  /\ RunIdle
  /\ cb_pc = "find"
  /\ PopupIdle
  /\ PlayIdle
  /\ RoundIdle
  /\ dom_name \in LookupOutcomes
  /\ dom_css \in [1..3 -> LookupOutcomes]
  /\ dom_similar \in BOOLEAN
  /\ cb_selected \in BOOLEAN
  /\ lookups = <<>>
  /\ checkbox = "None"
  /\ diagnosed = FALSE
  /\ click_methods = <<>>
  /\ click_success = "pending"
  /\ cell_result = "pending"

\* checkbox = self.driver.find_element(By.NAME, checkbox_name): found is
\* returned, NoSuchElementException goes on to the alternative selectors,
\* any other exception returns None
FindByName ==
  /\ cb_pc = "find"
  /\ lookups' = Append(lookups, "name")
  /\ checkbox' = IF dom_name = "found" THEN "name" ELSE "None"
  /\ cb_pc' = CASE dom_name = "found" -> "click"
                [] dom_name = "missing" -> "css"
                [] OTHER -> "not_found"
  /\ UNCHANGED <<dom_name, dom_css, dom_similar, cb_selected, diagnosed,
                 click_methods, click_success, cell_result>>
  /\ UNCHANGED notClick

\* for selector in alternative_selectors: found is returned,
\* NoSuchElementException continues, the end of the list returns None; any
\* other exception is raised inside the except clause of the first lookup,
\* leaves _find_checkbox_by_name and is caught by _click_checkbox, which
\* returns False
FindByCss ==
  /\ cb_pc = "css"
  /\ LET i == Len(lookups)
     IN /\ lookups' = Append(lookups, "css")
        /\ checkbox' = IF dom_css[i] = "found" THEN "css" ELSE "None"
        /\ cb_pc' = CASE dom_css[i] = "found" -> "click"
                      [] dom_css[i] = "missing" /\ i < 3 -> "css"
                      [] dom_css[i] = "missing" /\ i = 3 -> "not_found"
                      [] OTHER -> "returned"
        /\ cell_result' = IF dom_css[i] = "error" THEN "False" ELSE cell_result
  /\ UNCHANGED <<dom_name, dom_css, dom_similar, cb_selected, diagnosed,
                 click_methods, click_success>>
  /\ UNCHANGED notClick

\* if not checkbox: self._debug_page_elements(...); return False. The
\* screenshot, the enumeration of the checkboxes and the search for names
\* containing chkbox_{game}_ are logged and nothing else
DebugPageElements ==
  /\ cb_pc = "not_found"
  /\ diagnosed' = TRUE
  /\ lookups' = Append(lookups, "substring")
  /\ cell_result' = "False"
  /\ cb_pc' = "returned"
  /\ UNCHANGED <<dom_name, dom_css, dom_similar, cb_selected, checkbox,
                 click_methods, click_success>>
  /\ UNCHANGED notClick

\* _safe_click_checkbox: if checkbox_element.is_selected(): return True;
\* the scroll into view is tried and its failure ignored
SafeClickEntry ==
  /\ cb_pc = "click"
  /\ IF cb_selected
       THEN click_success' = "True" /\ cb_pc' = "clicked"
       ELSE click_success' = click_success /\ cb_pc' = "native"
  /\ UNCHANGED <<dom_name, dom_css, dom_similar, cb_selected, lookups,
                 checkbox, diagnosed, click_methods, cell_result>>
  /\ UNCHANGED notClick

\* checkbox_element.click(); if is_selected(): return True; else: warning
\* (and the function runs off its end, returning None);
\* except Exception: the JavaScript click
NativeClick ==
  /\ cb_pc = "native"
  /\ click_methods' = Append(click_methods, "native")
  /\ \E out \in ClickMethodOutcomes :
       /\ cb_selected' = (out = "selected")
       /\ click_success' = CASE out = "selected" -> "True"
                             [] out = "unselected" -> "None"
                             [] OTHER -> click_success
       /\ cb_pc' = IF out = "raised" THEN "js" ELSE "clicked"
  /\ UNCHANGED <<dom_name, dom_css, dom_similar, lookups, checkbox,
                 diagnosed, cell_result>>
  /\ UNCHANGED notClick

\* execute_script("arguments[0].click();"); if is_selected(): return True;
\* else: return False; except Exception: the click after the wait
JavaScriptClick ==
  /\ cb_pc = "js"
  /\ click_methods' = Append(click_methods, "js")
  /\ \E out \in ClickMethodOutcomes :
       /\ cb_selected' = (out = "selected")
       /\ click_success' = CASE out = "selected" -> "True"
                             [] out = "unselected" -> "False"
                             [] OTHER -> click_success
       /\ cb_pc' = IF out = "raised" THEN "wait" ELSE "clicked"
  /\ UNCHANGED <<dom_name, dom_css, dom_similar, lookups, checkbox,
                 diagnosed, cell_result>>
  /\ UNCHANGED notClick

\* self.wait.until(element_to_be_clickable); click();
\* return is_selected(); except: return False
WaitClick ==
  /\ cb_pc = "wait"
  /\ click_methods' = Append(click_methods, "wait")
  /\ \E out \in ClickMethodOutcomes :
       /\ cb_selected' = (out = "selected")
       /\ click_success' = IF out = "selected" THEN "True" ELSE "False"
  /\ cb_pc' = "clicked"
  /\ UNCHANGED <<dom_name, dom_css, dom_similar, lookups, checkbox,
                 diagnosed, cell_result>>
  /\ UNCHANGED notClick

\* success = self._safe_click_checkbox(...); return success
ClickCheckboxReturn ==
  /\ cb_pc = "clicked"
  /\ cell_result' = click_success
  /\ cb_pc' = "returned"
  /\ UNCHANGED <<dom_name, dom_css, dom_similar, cb_selected, lookups,
                 checkbox, diagnosed, click_methods, click_success>>
  /\ UNCHANGED notClick

NextClick ==
  \/ FindByName
  \/ FindByCss
  \/ DebugPageElements
  \/ SafeClickEntry
  \/ NativeClick
  \/ JavaScriptClick
  \/ WaitClick
  \/ ClickCheckboxReturn

SpecClick == InitClick /\ [][NextClick]_vars

\* ---------------------------------------------------------------------
\* FormFiller._dismiss_popups_and_overlays_quick and
\* WebDriverManager.close_unexpected_popups; time in half seconds
\* ---------------------------------------------------------------------

\* time.time() - start > budget_sec
Over(t) == t > BudgetTicks

\* a dismissal of the given kind is begun at time t
Begun(kind, t) == IF Over(t) THEN late_actions \cup {kind} ELSE late_actions

InitPopup ==
  /\ OrchestratorIdle
  /\ SplitIdle
  /\ FillIdle
  /\ nameSite = "none"
  /\ CliIdle
  /\ SeqIdle
  /\ CycleIdle
  /\ LoopsIdle
  /\ ReuseIdle
  /\ NavIdle
  /\ RoutinesIdle
  /\ AllIdle
  /\ RunIdle
  /\ ClickIdle
  /\ pop_pc = "alert"
  /\ PlayIdle
  /\ RoundIdle
  /\ pop_elapsed = 0
  /\ alert_present \in BOOLEAN
  /\ frames \in 0..QuickIframes
  /\ frame_i = 0
  /\ in_frame = FALSE
  /\ sel_i = 0
  /\ elems_left = 0
  /\ popups_handled = 0
  /\ late_actions = {}

\* if self.handle_alert(accept=True): handled += 1. handle_alert waits up
\* to 5 seconds for an alert: one that is there, or appears during the
\* wait, is accepted; otherwise the wait times out after the 5 seconds
PopupHandleAlert ==
  /\ pop_pc = "alert"
  /\ IF alert_present
       THEN \E t \in 0..AlertWaitTicks :
              /\ pop_elapsed' = pop_elapsed + t
              /\ late_actions' = Begun("alert", pop_elapsed + t)
              /\ popups_handled' = popups_handled + 1
       ELSE /\ pop_elapsed' = pop_elapsed + AlertWaitTicks
            /\ UNCHANGED <<late_actions, popups_handled>>
  /\ pop_pc' = "selectors"
  /\ sel_i' = 1
  /\ UNCHANGED <<alert_present, frames, frame_i, in_frame, elems_left>>
  /\ UNCHANGED notPopup

\* for sel in selectors: if time.time() - start > budget_sec: break;
\* elems = driver.find_elements(...), which can take time and can raise
PopupNextSelector ==
  /\ pop_pc = "selectors"
  /\ IF sel_i > NumSelectors \/ Over(pop_elapsed)
       THEN /\ pop_pc' = "esc"
            /\ UNCHANGED <<pop_elapsed, elems_left, sel_i>>
       ELSE \E dt \in 0..1, n \in 0..MaxPopupElements :
              /\ pop_elapsed' = pop_elapsed + dt
              /\ elems_left' = n
              /\ pop_pc' = IF n = 0 THEN "selectors" ELSE "elements"
              /\ sel_i' = IF n = 0 THEN sel_i + 1 ELSE sel_i
  /\ UNCHANGED <<alert_present, frames, frame_i, in_frame, popups_handled,
                 late_actions>>
  /\ UNCHANGED notPopup

\* for e in elems: if time.time() - start > budget_sec: break;
\* if e.is_displayed() and e.is_enabled(): e.click(); c += 1;
\* except Exception: continue
PopupClickElement ==
  /\ pop_pc = "elements"
  /\ IF elems_left = 0 \/ Over(pop_elapsed)
       THEN /\ pop_pc' = "selectors"
            /\ sel_i' = sel_i + 1
            /\ elems_left' = 0
            /\ UNCHANGED <<pop_elapsed, popups_handled, late_actions>>
       ELSE \E dt \in 0..1, clicked \in BOOLEAN :
              /\ pop_elapsed' = pop_elapsed + dt
              /\ elems_left' = elems_left - 1
              /\ late_actions' = Begun("close", pop_elapsed)
              /\ popups_handled' = popups_handled + (IF clicked THEN 1 ELSE 0)
              /\ UNCHANGED <<pop_pc, sel_i>>
  /\ UNCHANGED <<alert_present, frames, frame_i, in_frame>>
  /\ UNCHANGED notPopup

\* ActionChains(driver).send_keys(Keys.ESCAPE).perform(); return c; in a
\* frame the finally clause switches back to the default content
PopupSendEscape ==
  /\ pop_pc = "esc"
  /\ late_actions' = Begun("esc", pop_elapsed)
  /\ pop_pc' = IF in_frame THEN "frame" ELSE "frames"
  /\ frame_i' = IF in_frame THEN frame_i + 1 ELSE frame_i
  /\ in_frame' = FALSE
  /\ UNCHANGED <<pop_elapsed, alert_present, frames, sel_i, elems_left,
                 popups_handled>>
  /\ UNCHANGED notPopup

\* if time.time() - start < budget_sec:
\*     frames = driver.find_elements(By.CSS_SELECTOR, "iframe")[:max_iframes]
PopupFrames ==
  /\ pop_pc = "frames"
  /\ IF pop_elapsed < BudgetTicks
       THEN pop_pc' = "frame" /\ frame_i' = 1
       ELSE pop_pc' = "hide" /\ frame_i' = frame_i
  /\ UNCHANGED <<pop_elapsed, alert_present, frames, in_frame, sel_i, elems_left,
                 popups_handled, late_actions>>
  /\ UNCHANGED notPopup

\* for frame in frames: if time.time() - start > budget_sec: break;
\* driver.switch_to.frame(frame), which can raise (continue);
\* handled += try_close_in_context_quick()
PopupNextFrame ==
  /\ pop_pc = "frame"
  /\ IF frame_i > frames \/ Over(pop_elapsed)
       THEN /\ pop_pc' = "hide"
            /\ UNCHANGED <<frame_i, in_frame, sel_i>>
       ELSE \E switched \in BOOLEAN :
              IF switched
                THEN /\ pop_pc' = "selectors"
                     /\ in_frame' = TRUE
                     /\ sel_i' = 1
                     /\ frame_i' = frame_i
                ELSE /\ frame_i' = frame_i + 1
                     /\ UNCHANGED <<pop_pc, in_frame, sel_i>>
  /\ UNCHANGED <<pop_elapsed, alert_present, frames, elems_left, popups_handled,
                 late_actions>>
  /\ UNCHANGED notPopup

\* hidden = self.driver.execute_script(js); handled += int(hidden);
\* return handled
PopupHideOverlays ==
  /\ pop_pc = "hide"
  /\ late_actions' = Begun("hide", pop_elapsed)
  /\ \E hidden \in 0..1 : popups_handled' = popups_handled + hidden
  /\ pop_pc' = "done"
  /\ UNCHANGED <<pop_elapsed, alert_present, frames, frame_i, in_frame, sel_i,
                 elems_left>>
  /\ UNCHANGED notPopup

NextPopup ==
  \/ PopupHandleAlert
  \/ PopupNextSelector
  \/ PopupClickElement
  \/ PopupSendEscape
  \/ PopupFrames
  \/ PopupNextFrame
  \/ PopupHideOverlays

SpecPopup == InitPopup /\ [][NextPopup]_vars

\* ---------------------------------------------------------------------
\* ActionPlayer.execute_action_sequence
\* ---------------------------------------------------------------------

\* the fields of an ActionStep the replay loop looks at
PlayedSteps == [optional : BOOLEAN, retry_count : 0..MaxRetryCount]

\* what one call of _perform_action can do
PerformOutcomes == {"True", "False", "raised"}

\* variant: a failed action never ends the replay
StopsSequence_Never(ok, optional) == FALSE
\* if success: ... elif action.optional: ... else: ... return False
StopsSequence(ok, optional) == ~ok /\ ~optional

\* the sequence has been loaded and the player constructed
InitPlay ==
  /\ OrchestratorIdle
  /\ SplitIdle
  /\ FillIdle
  /\ nameSite = "none"
  /\ CliIdle
  /\ SeqIdle
  /\ CycleIdle
  /\ LoopsIdle
  /\ ReuseIdle
  /\ NavIdle
  /\ RoutinesIdle
  /\ AllIdle
  /\ RunIdle
  /\ ClickIdle
  /\ PopupIdle
  /\ play_actions \in SeqsUpTo(PlayedSteps, MaxPlayActions)
  /\ RoundIdle
  /\ play_pc = "start"
  /\ play_i = 0
  /\ tries = 0
  /\ single_success = FALSE
  /\ results = <<>>
  /\ execution_stats = [total_actions |-> 0, successful_actions |-> 0,
                        failed_actions |-> 0, skipped_actions |-> 0]
  /\ play_ret = "none"

\* self.execution_stats["total_actions"] = len(sequence.batch_actions) and
\* the three counters are set to 0
PlayBegin ==
  /\ play_pc = "start"
  /\ execution_stats' = [total_actions |-> Len(play_actions),
                         successful_actions |-> 0, failed_actions |-> 0,
                         skipped_actions |-> 0]
  /\ play_i' = 1
  /\ play_pc' = "next"
  /\ UNCHANGED <<play_actions, tries, single_success, results, play_ret>>
  /\ UNCHANGED notPlay

\* for i, action in enumerate(sequence.batch_actions, 1): the call of
\* _execute_single_action; after the loop: return True
PlayNextAction ==
  /\ play_pc = "next"
  /\ IF play_i > Len(play_actions)
       THEN play_pc' = "returned" /\ play_ret' = "True"
       ELSE play_pc' = "attempt" /\ play_ret' = play_ret
  /\ tries' = 0
  /\ UNCHANGED <<play_actions, play_i, single_success, results,
                 execution_stats>>
  /\ UNCHANGED notPlay

\* for attempt in range(action.retry_count): success =
\* self._perform_action(action); True is returned at once, False and an
\* exception go on to the next attempt; after the loop: return False
PlayAttempt ==
  /\ play_pc = "attempt"
  /\ IF tries < play_actions[play_i].retry_count
       THEN \E out \in PerformOutcomes :
              /\ tries' = tries + 1
              /\ IF out = "True"
                   THEN /\ single_success' = TRUE
                        /\ results' = Append(results, "ok")
                        /\ play_pc' = "judge"
                   ELSE UNCHANGED <<single_success, results, play_pc>>
       ELSE /\ single_success' = FALSE
            /\ results' = Append(results, "failed")
            /\ play_pc' = "judge"
            /\ tries' = tries
  /\ UNCHANGED <<play_actions, play_i, execution_stats, play_ret>>
  /\ UNCHANGED notPlay

\* if success: successful_actions += 1; elif action.optional:
\* skipped_actions += 1; else: failed_actions += 1; return False
PlayJudge ==
  /\ play_pc = "judge"
  /\ LET optional == play_actions[play_i].optional
         counter == CASE single_success -> "successful_actions"
                      [] ~single_success /\ optional -> "skipped_actions"
                      [] OTHER -> "failed_actions"
     IN /\ execution_stats' =
             [execution_stats EXCEPT ![counter] = execution_stats[counter] + 1]
        /\ IF StopsSequence(single_success, optional)
             THEN /\ play_pc' = "returned"
                  /\ play_ret' = "False"
                  /\ play_i' = play_i
             ELSE /\ play_pc' = "next"
                  /\ play_ret' = play_ret
                  /\ play_i' = play_i + 1
  /\ UNCHANGED <<play_actions, tries, single_success, results>>
  /\ UNCHANGED notPlay

NextPlay ==
  \/ PlayBegin
  \/ PlayNextAction
  \/ PlayAttempt
  \/ PlayJudge

SpecPlay == InitPlay /\ [][NextPlay]_vars

\* ---------------------------------------------------------------------
\* The round selector of the batch loop, by entry point
\* ---------------------------------------------------------------------

\* the ways into _process_data_batches: main() of enhanced_automation.py
\* and the Start button (both through run_automation), and the Complete
\* Workflow button
RoundEntries == {"cli", "gui_start", "workflow"}

\* _setup_webdriver: self.round_selector = TotoRoundSelector(driver), a new
\* object without a selected round; a selector the GUI shared with the
\* system is from now on the GUI's own
SelectorAfterSetup(gui) == IF gui = "shared" THEN "own" ELSE gui

\* the program has started: no run was made and the GUI has no selector
InitRound ==
  /\ OrchestratorIdle
  /\ SplitIdle
  /\ FillIdle
  /\ nameSite = "none"
  /\ CliIdle
  /\ SeqIdle
  /\ CycleIdle
  /\ LoopsIdle
  /\ ReuseIdle
  /\ NavIdle
  /\ RoutinesIdle
  /\ AllIdle
  /\ RunIdle
  /\ ClickIdle
  /\ PopupIdle
  /\ PlayIdle
  /\ rs_pc = "idle"
  /\ rs_entry = "none"
  /\ rs_total = 0
  /\ rs_batch = 0
  /\ system_round = FALSE
  /\ gui_round_selector = "None"
  /\ gui_round = FALSE
  /\ round_link_refused = FALSE
  /\ rs_runs = 0

\* run_automation in basic mode: _setup_webdriver, the user brings the
\* browser to the voting page by hand, _load_data, _process_data_batches.
\* The Start button builds a new EnhancedAutomationSystem for each run; the
\* command line makes one run in a process without a GUI
RoundStartRunAutomation ==
  /\ rs_pc = "idle"
  /\ rs_runs < MaxInvocations
  /\ \E e \in {"cli", "gui_start"}, n \in 1..MaxLoopBatches :
       /\ e = "cli" => rs_runs = 0
       /\ rs_entry \in {"none", e} \/ (rs_entry = "workflow" /\ e = "gui_start")
       /\ rs_entry' = e
       /\ rs_total' = n
  /\ system_round' = FALSE
  /\ gui_round_selector' = SelectorAfterSetup(gui_round_selector)
  /\ rs_batch' = 1
  /\ rs_pc' = "batches"
  /\ UNCHANGED <<gui_round, round_link_refused, rs_runs>>
  /\ UNCHANGED notRound

\* start_complete_workflow: _setup_webdriver, _load_data, then
\* `if not self.round_selector:` the GUI makes a selector and gives the
\* same object to the automation system; the rounds are detected and the
\* thread ends, waiting for the user's choice
RoundStartCompleteWorkflow ==
  /\ rs_pc = "idle"
  /\ rs_runs < MaxInvocations
  /\ rs_entry # "cli"
  /\ rs_entry' = "workflow"
  /\ \E n \in 1..MaxLoopBatches : rs_total' = n
  /\ IF gui_round_selector = "None"
       THEN /\ gui_round_selector' = "shared"
            /\ gui_round' = FALSE
       ELSE /\ gui_round_selector' = SelectorAfterSetup(gui_round_selector)
            /\ gui_round' = gui_round
  /\ system_round' = FALSE
  /\ rs_batch' = 0
  /\ rs_pc' = "round_selection"
  /\ UNCHANGED <<round_link_refused, rs_runs>>
  /\ UNCHANGED notRound

\* continue_complete_workflow: self.round_selector.select_round_by_number,
\* which stores selected_round when the round's link was clicked; then the
\* continuation clicks the voting prediction button and calls
\* _process_data_batches. A failed selection shows an error and returns
RoundContinueWorkflow ==
  /\ rs_pc = "round_selection"
  /\ \E clicked \in BOOLEAN :
       IF clicked
         THEN /\ gui_round' = TRUE
              /\ system_round' = (gui_round_selector = "shared")
              /\ rs_batch' = 1
              /\ rs_pc' = "batches"
              /\ rs_runs' = rs_runs
         ELSE /\ rs_pc' = "idle"
              /\ rs_runs' = rs_runs + 1
              /\ UNCHANGED <<gui_round, system_round, rs_batch>>
  /\ UNCHANGED <<rs_entry, rs_total, gui_round_selector, round_link_refused>>
  /\ UNCHANGED notRound

\* _process_single_batch_basic: if self.current_batch > 1:
\* self.round_selector.click_round_link_on_addition_page(), which returns
\* False at once `if not self.selected_round`; the loop marks the batch and
\* goes on to the next one
RoundBeginBatch ==
  /\ rs_pc = "batches"
  /\ rs_batch <= rs_total
  /\ round_link_refused' =
       (round_link_refused \/ (rs_batch > 1 /\ ~system_round))
  /\ rs_batch' = rs_batch + 1
  /\ UNCHANGED <<rs_pc, rs_entry, rs_total, system_round, gui_round_selector,
                 gui_round, rs_runs>>
  /\ UNCHANGED notRound

\* the loop has ended and the run returns
RoundRunFinished ==
  /\ rs_pc = "batches"
  /\ rs_batch > rs_total
  /\ rs_pc' = "idle"
  /\ rs_runs' = rs_runs + 1
  /\ UNCHANGED <<rs_entry, rs_total, rs_batch, system_round,
                 gui_round_selector, gui_round, round_link_refused>>
  /\ UNCHANGED notRound

NextRound ==
  \/ RoundStartRunAutomation
  \/ RoundStartCompleteWorkflow
  \/ RoundContinueWorkflow
  \/ RoundBeginBatch
  \/ RoundRunFinished

SpecRound == InitRound /\ [][NextRound]_vars

\* ---------------------------------------------------------------------------
\* Properties of the batch loop

\* batch b has been left by the for loop, or the worker has left the loop
BatchOver(b) ==
  /\ b <= current_batch
  /\ \/ b < current_batch
     \/ pc \in {"for"} \cup AfterRunPcs

\* C1: with max_retries = N fixed during the loop, a batch is marked failed
\* only after exactly N+1 attempts, and a batch whose attempts all failed
\* has had exactly N+1 attempts and is marked failed once the loop leaves it.
C1_FailedAfterAllAttempts ==
  settingsStable =>
    \A b \in Batches :
      /\ marked[b] = "failed" => attempts[b] = max_retries + 1
      /\ (BatchOver(b) /\ marked[b] # "ok") =>
            (marked[b] = "failed" /\ attempts[b] = max_retries + 1)
      /\ attempts[b] <= max_retries + 1

C1_Witness ==
  /\ settingsStable
  /\ max_retries = 1
  /\ marked[1] = "failed"
  /\ attempts[1] = 2
  /\ stats.failed_batches = 1

\* C2: when the worker leaves the batch loop, every batch 1..M has received
\* at least one attempt, whatever happened to the batches before it.
C2_EveryBatchAttempted ==
  pc \in AfterRunPcs => \A b \in 1..total_batches : attempts[b] >= 1

C2_Witness ==
  /\ pc \in AfterRunPcs
  /\ total_batches = 2
  /\ marked[1] = "failed"
  /\ attempts[2] >= 1

\* C3: once the loop over all batches has finished, the run returns success
\* exactly when at least one batch succeeded (successful_batches > 0),
\* whatever the number of failed batches.
C3_SuccessIffAnySuccessful ==
  loopFinished =>
    /\ (ret = "T") <=> (stats.successful_batches > 0)
    /\ (ret = "F") <=> (stats.successful_batches = 0)

C3_Witness ==
  /\ loopFinished
  /\ ret = "T"
  /\ stats.failed_batches > 0
  /\ stats.successful_batches = 1

\* C4: the attempt counter counts the failed attempts of the current batch
\* only: it is 0 when a batch starts, whatever the earlier batches used.
C4_FreshRetryBudget ==
  (pc \in AttemptPcs \cup {"while"}) =>
    retry_count = attempts[current_batch]
                    - (IF pc \in AttemptPcs \/ batch_success THEN 1 ELSE 0)

C4_Witness ==
  /\ pc = "while"
  /\ current_batch = 2
  /\ attempts[2] = 0
  /\ retry_count = 0
  /\ attempts[1] >= 2
  /\ marked[1] = "failed"

\* C5: within one attempt submit-form is invoked only right after fill-form
\* returned True, alert handling only right after submit-form returned True,
\* and fill-form is invoked before both.
C5_FillSubmitAlertOrder ==
  \A i \in 1..Len(ops) :
    /\ ops[i] = Call("submit") => (i > 1 /\ ops[i-1] = <<"fill", "ok">>)
    /\ ops[i] = Call("alert") => (i > 1 /\ ops[i-1] = <<"submit", "ok">>)
    /\ ops[i] = Call("fill") =>
          \A j \in 1..(i-1) : ops[j][1] \notin {"fill", "submit", "alert"}

C5_Witness ==
  /\ Len(ops) >= 6
  /\ ops[Len(ops)] = <<"alert", "ok">>
  /\ ops[Len(ops) - 1] = Call("alert")
  /\ ops[Len(ops) - 2] = <<"submit", "ok">>

\* positions of an event in the trace of the current attempt
Pos(e) == {i \in 1..Len(ops) : ops[i] = e}
Before(e, f) == \A j \in Pos(f) : \E i \in Pos(e) : i < j

\* C6 (as stated): on every attempt but the first, the wait and then the
\* recovery action precede fill-form; on the first attempt neither occurs.
C6_RecoveryBeforeEveryRetry ==
  pc \in AttemptPcs =>
    IF retry_count = 0
    THEN \A i \in 1..Len(ops) : ops[i][1] \notin {"sleep", "recover"}
    ELSE /\ Before(<<"sleep", "ok">>, Call("recover"))
         /\ Before(<<"recover", "ok">>, Call("fill"))

\* C6 (amended): on every attempt but the first the wait precedes fill-form,
\* and the recovery action follows the wait and precedes fill-form exactly
\* when error_recovery_enabled is set; on the first attempt neither occurs.
C6_RecoveryBeforeRetryIfEnabled ==
  pc \in AttemptPcs =>
    IF retry_count = 0
    THEN \A i \in 1..Len(ops) : ops[i][1] \notin {"sleep", "recover"}
    ELSE /\ ops[1] = Call("sleep")
         /\ Before(<<"sleep", "ok">>, Call("recover"))
         /\ Before(<<"sleep", "ok">>, Call("fill"))
         /\ settingsStable =>
              IF error_recovery_enabled
              THEN Before(<<"recover", "ok">>, Call("fill"))
              ELSE Pos(Call("recover")) = {}

C6_Witness ==
  /\ pc = "fill"
  /\ retry_count > 0
  /\ settingsStable
  /\ error_recovery_enabled
  /\ Pos(<<"recover", "ok">>) # {}

\* an attempt has just ended with a False return / with an exception
EndedWith(kinds) ==
  /\ Len(ops') = Len(ops) + 1
  /\ ops'[Len(ops')][2] \in kinds

\* C7: an exception during an attempt is handled like a False return: it
\* uses up exactly one attempt of the batch, the worker is back at the test
\* of the retry loop (nothing propagates), and no counter of the run moves.
C7_ExceptionCountsAsOneAttempt ==
  [][ EndedWith({"false", "raise"}) =>
        /\ retry_count' = retry_count + 1
        /\ pc' = "while"
        /\ UNCHANGED <<stats, current_batch, batch_success, ret, marked, attempts>>
    ]_vars

C7_Witness ==
  /\ pc = "while"
  /\ Len(ops) > 0
  /\ ops[Len(ops)] = <<"sleep", "raise">>
  /\ retry_count = 2
  /\ attempts[current_batch] = 2
  /\ retry_count <= max_retries

\* C8: once Stop has been pressed, no further batch attempt begins.
C8_NoAttemptAfterStop ==
  [][ (stopSeen /\ stopSeen') => attempts' = attempts ]_vars

\* C9: pressing Stop while a batch attempt is executing a browser call does
\* not act on the browser session.
C9_StopLeavesSessionAlone ==
  [][ (~stopSeen /\ stopSeen' /\ pc \in BatchCallPcs) => driver' = driver ]_vars

\* attributes whose accesses are observed
Attributes == {"is_running", "form_input_ready", "voting_page_reached", "batch_data",
               "max_retries", "retry_delay", "error_recovery_enabled", "driver"}
Threads == {"ui", "worker"}

\* written by one thread and read directly by the other
CrossThread(v) ==
  \E t \in Threads, u \in Threads :
     t # u /\ <<v, t, "w">> \in acc /\ <<v, u, "r">> \in acc

\* attributes of the automation system both threads touch directly
SharedDirect == {"form_input_ready", "voting_page_reached", "batch_data",
                 "max_retries", "retry_delay", "error_recovery_enabled", "driver"}

C11_NoUiCommandDuringWorkerCall ==
  [][ (pc \in BatchCallPcs /\ <<"driver", "ui", "r">> \notin acc)
        => <<"driver", "ui", "r">> \notin acc' ]_vars

\* C23: each batch increments exactly one of successful_batches and
\* failed_batches, exactly once, however many attempts it took; when the loop
\* over M batches has finished the two counters add up to M.
C23_OneCounterPerBatch ==
  /\ stats.successful_batches = Cardinality({b \in Batches : marked[b] = "ok"})
  /\ stats.failed_batches = Cardinality({b \in Batches : marked[b] = "failed"})
  /\ loopFinished =>
       stats.successful_batches + stats.failed_batches = total_batches

C23_Witness ==
  /\ loopFinished
  /\ total_batches = 2
  /\ stats.successful_batches = 1
  /\ stats.failed_batches = 1
  /\ stats.retry_attempts > 1

\* ---------------------------------------------------------------------------
\* Properties of the splitter

\* ceil(n / d) for d > 0
CeilDiv(n, d) == (n + d - 1) \div d

RECURSIVE Flatten(_)
\* the batches concatenated in order
Flatten(bs) == IF bs = <<>> THEN <<>> ELSE Head(bs) \o Flatten(Tail(bs))

\* C12: for a loaded CSV of N >= 1 rows, splitting with the default batch
\* size (10) returns exactly ceil(N / 10) batches; 25 rows give three
\* batches of 10, 10 and 5 rows.
C12_BatchCountIsCeiling ==
  (splitPc = "returned" /\ Len(data) >= 1 /\ batch_size = DefaultBatchSize) =>
    /\ Len(batches) = CeilDiv(Len(data), 10)
    /\ Len(data) = 25 =>
         /\ Len(batches) = 3
         /\ <<Len(batches[1]), Len(batches[2]), Len(batches[3])>> = <<10, 10, 5>>

C12_Witness ==
  /\ splitPc = "returned"
  /\ batch_size = DefaultBatchSize
  /\ MAX_SETS_PER_BATCH = DefaultBatchSize
  /\ Len(data) = 25
  /\ Len(batches) = 3

\* C13: the batches the splitter returns are all non-empty, each holds at
\* most 10 rows, and their concatenation in order is the loaded rows in
\* their original order.
C13_BatchesPartitionRows ==
  splitPc = "returned" =>
    /\ \A b \in 1..Len(batches) : Len(batches[b]) >= 1 /\ Len(batches[b]) <= 10
    /\ Flatten(batches) = data

\* ---------------------------------------------------------------------------
\* Properties of the form filler

\* the fields of a name: the pieces between the underscores
RECURSIVE SplitFields(_, _, _)
SplitFields(name, cur, done) ==
  IF name = <<>> THEN Append(done, cur)
  ELSE IF Head(name) = "_" THEN SplitFields(Tail(name), <<>>, Append(done, cur))
  ELSE SplitFields(Tail(name), Append(cur, Head(name)), done)

\* int() of a string of decimal digits
RECURSIVE ToInt(_)
ToInt(ds) ==
  IF ds = <<>> THEN 0
  ELSE ToInt(SubSeq(ds, 1, Len(ds) - 1)) * 10
         + (CHOOSE d \in 0..9 : DigitChars[d + 1] = ds[Len(ds)])

\* name.split('_') and int() of the three numeric fields
ParseName(name) ==
  LET parts == SplitFields(name, <<>>, <<>>)
  IN  <<ToInt(parts[2]), ToInt(parts[3]), ToInt(parts[4])>>

\* C14: the filler converts a CSV value to the page value by 1 -> 0, 0 -> 1,
\* 2 -> 2; any other value makes the fill return False, and no checkbox of
\* that cell is clicked.
C14_VoteValueMapping ==
  /\ fillPc = "click" =>
       /\ csv_value \in {0, 1, 2}
       /\ csv_value = 1 => vote_value = 0
       /\ csv_value = 0 => vote_value = 1
       /\ csv_value = 2 => vote_value = 2
       /\ ParseName(checkbox_name)[3] = vote_value
  /\ (fillPc = "returned" /\ csv_value \notin {0, 1, 2}) =>
       /\ ~fill_result
       /\ \/ checkbox_name = <<>>
          \/ <<ParseName(checkbox_name)[1], ParseName(checkbox_name)[2]>>
               # <<set_index, game_index>>

C14_Witness ==
  /\ fillPc = "returned"
  /\ csv_value = 3
  /\ ~fill_result
  /\ game_index = 1
  /\ set_index = 1
  /\ ParseName(checkbox_name) = <<0, 1, 0>>

\* C15: the name generated for the cell (set, game) and the value is
\* chkbox_{set}_{game}_{value}, wherever the program generates it, so that
\* the triple is recovered from the name.
C15_NameMatchesTemplate ==
  nameSite # "none" =>
    /\ checkbox_name = <<"c", "h", "k", "b", "o", "x", "_">> \o Str(set_index)
                         \o <<"_">> \o Str(game_index) \o <<"_">> \o Str(vote_value)
    /\ ParseName(checkbox_name) = <<set_index, game_index, vote_value>>

\* C16: if the checkbox of any cell cannot be found or clicked, the fill stops
\* there and returns False for the whole batch, and the orchestrator treats
\* the attempt as failed: the batch is not counted as successful, one attempt
\* of the retry budget is used and the batch is retried while the budget lasts.
C16_CellFailureFailsAttempt ==
  cellFailed =>
    /\ fillPc = "returned"
    /\ ~fill_result
    /\ pc # "fill" =>
         /\ pc = "while"
         /\ ~batch_success
         /\ stats = ZeroStats
         /\ retry_count = 1
         /\ retry_count <= max_retries
         /\ ops[Len(ops)] = <<"fill", "false">>

C16_Witness ==
  /\ cellFailed
  /\ pc = "while"
  /\ retry_count = 1
  /\ game_index = 1
  /\ Len(checkbox_name) > 0

\* ---------------------------------------------------------------------------
\* Properties of the command-line entry points

C18_RoundTripLossless ==
  restoredFrom \in {"dict", "file"} =>
    /\ Len(restored.batch_actions) = Len(actions.batch_actions)
    /\ \A k \in 1..Len(actions.batch_actions) :
         \A f \in FieldSet :
           restored.batch_actions[k][f] = actions.batch_actions[k][f]
    /\ restoredFrom = "file" => restored.metadata = actions.metadata

C18_Witness ==
  /\ restoredFrom = "file"
  /\ Len(restored.batch_actions) = 2
  /\ restored.batch_actions[1]["retry_count"] = PyInt("0")
  /\ restored.batch_actions[1]["selector"] = PyNone
  /\ restored.batch_actions[2]["optional"] = PyTrue
  /\ restored.batch_actions[2]["action"] = PyStr("sleep")
  /\ restored.batch_actions[2]["timeout"] = PyFloat("10", "0")

\* ---------------------------------------------------------------------------
\* Properties of the batch cycle

\* the order of the cycle, with its failure states and the start of a new
\* attempt after a failure
CycleOrder ==
  {<<"form-ready", "filled">>, <<"filled", "dialog-pending">>,
   <<"dialog-pending", "cart-page">>, <<"dialog-pending", "still-voting-page">>,
   <<"cart-page", "form-ready">>, <<"still-voting-page", "form-ready">>,
   <<"form-ready", "fill-failed">>, <<"filled", "submit-failed">>,
   <<"dialog-pending", "submit-failed">>,
   <<"cart-page", "submit-failed">>, <<"still-voting-page", "submit-failed">>,
   <<"cart-page", "navigation-failed">>, <<"still-voting-page", "navigation-failed">>}
  \cup ({"fill-failed", "submit-failed", "navigation-failed"}
          \X {"form-ready", "filled", "fill-failed"})

\* C19: the cycle moves only along form-ready -> filled -> dialog-pending ->
\* (cart-page | still-voting-page) -> form-ready (or into a failure state,
\* from which an attempt starts again), and fill_voting_form is only ever
\* invoked with the browser on the voting-input page.
C19_CycleOrder ==
  [][/\ (pc = "fill" /\ served' # served) => page = "voting"
     /\ phase' # phase => <<phase, phase'>> \in CycleOrder]_vars

\* C20: when the confirmation landed on a cart/confirmation page, submit_form
\* answers True only with the browser back on the voting-input page.
C20_SuccessOnlyAfterNavigationBack ==
  (pc = "submit" /\ served = Token /\ call_result = "ok" /\ landed = "cart")
    => page = "voting"

\* C21: once the cart-add click of an attempt put the batch in the cart, no
\* later attempt of the same batch clicks the cart button again.
C21_NoSecondCartAdd ==
  ~(/\ pc = "submit"
    /\ submitPc = "immediate_alert"
    /\ addedIn[1] = current_batch
    /\ addedIn[2] < attempts[current_batch])

\* ---------------------------------------------------------------------------
\* Properties of the other batch loops

RECURSIVE CountOf(_, _)
\* number of occurrences of x in the sequence q
CountOf(q, x) ==
  IF q = <<>> THEN 0
  ELSE (IF Head(q) = x THEN 1 ELSE 0) + CountOf(Tail(q), x)

\* C22: when one of the other batch loops has returned, every batch was
\* processed and every batch that failed is counted as failed: a failed batch
\* does not end the run.
C22_FailedBatchDoesNotAbort ==
  loopPc = "done" =>
    /\ Len(processed) = loop_batches
    /\ loop_stats.failed_batches = CountOf(processed, "failed")

\* ---------------------------------------------------------------------------
\* Properties of runs on a kept orchestrator

\* C24: the result of a run depends on that run's batches only: a run in
\* which every batch failed returns failure, and one with a successful batch
\* returns success.
C24_ResultOfThisRunOnly ==
  invPc = "returned" => (inv_ret = "T" <=> inv_successes > 0)

\* ---------------------------------------------------------------------------
\* Properties of the recovery

\* C25: a recovery attempts the navigation back to the form exactly when the
\* browser is not on the voting-input page.
C25_RecoveryNavigatesIffOffPage ==
  [][(pc = "recover" /\ served' # served)
       => (nav_attempted' <=> page # "voting")]_vars

\* C26: when the recovery is over the browser shows the page the first step
\* of the retried attempt needs: the voting-input page for batch 1, the
\* cart/addition page with the round link for a later batch.
C26_RecoveryLeavesApplicablePage ==
  (pc = "recover" /\ served = Token)
    => page = (IF current_batch = 1 THEN "voting" ELSE "cart")

\* ---------------------------------------------------------------------------
\* Properties of the way back from the cart page

\* C27: the link method comes first, then browser back, then the direct URL:
\* browser back starts only after every link xpath was gone through, the
\* direct URL only after browser back, no method starts after an earlier one
\* reached the voting-input page, and the method that reaches it ends the
\* procedure with success
C27_PriorityOrder ==
  /\ "back" \in started => link_index = VotingPageLinks
  /\ "direct" \in started => "back" \in started
  /\ reached_by = "link" => started \cap {"back", "direct", "fallback"} = {}
  /\ reached_by = "back" => started \cap {"direct", "fallback"} = {}
  /\ reached_by = "direct" => "fallback" \notin started
  /\ reached_by \in {"link", "back", "direct"}
       => navPc = "returned" /\ nav_result = "ok"

\* the links and browser back failed and the direct URL reached the page
C27_Witness ==
  /\ started = {"link", "back", "direct"}
  /\ reached_by = "direct"
  /\ nav_result = "ok"

\* C28: no navigation method (link click, browser back, direct URL, fallback
\* link search, emergency navigation) is started once more than thirty
\* seconds have passed since the procedure started
C28_NothingStartedOverBudget == last_start <= NavigationBudget

\* C29: once the probe found the session dead the procedure has returned
\* False with no further step, the session is not restarted, and the batch is
\* never counted as successful: it ends marked as failed
C29_DeadSessionFailsFast ==
  found_dead =>
    /\ navPc = "returned"
    /\ nav_result = "false"
    /\ browser = "dead"
    /\ marked[current_batch] # "ok"
    /\ pc = "cleanup" => marked[current_batch] = "failed"

\* the probe found the session dead and the batch ended as failed
C29_Witness ==
  /\ found_dead
  /\ pc = "cleanup"
  /\ marked[current_batch] = "failed"

\* C30: when the dialog handling detects neither an alert nor a dialog, it
\* answers True and submit_form goes on to the navigation back
C30_DialogTimeoutNonFatal ==
  (pc = "submit" /\ nav_for = attempts[current_batch]
     /\ dialog \in {"keys", "nothing"})
    => nav_page # "none"

\* no dialog was found and the submission went on to a successful end
C30_Witness ==
  /\ dialog = "nothing"
  /\ pc = "alert"
  /\ nav_result = "ok"

\* ---------------------------------------------------------------------------
\* Properties of the routines called by the batch loop

\* C31: fill_voting_form, submit_form and handle_alert answer False for
\* every failure, a failed step or an exception raised anywhere in the body,
\* and answer True only if nothing failed; nothing but an interrupt of the
\* process leaves them as an exception
C31_FailuresBecomeFalse ==
  /\ cause \in {"false", "exception"} => answer = "False"
  /\ answer = "raised" => cause = "interrupt"
  /\ answer = "True" => cause \in {"none", "true"}
  /\ caller_got \in {"none", answer}

\* an exception was raised in submit_form outside its inner handlers and the
\* caller got False
C31_Witness ==
  /\ routine = "submit"
  /\ cause = "exception"
  /\ swallowed > 0
  /\ caller_got = "False"

\* ---------------------------------------------------------------------------
\* Properties of the waits of basic mode

\* C32: a batch attempt is started only with voting_page_reached and
\* form_input_ready both set, and a run that ends without both (the voting
\* page was not seen in 60 polls, or no authorization came in 300 polls)
\* returns False and has attempted no batch
C32_NoFillBeforeReady ==
  /\ (pc \in LoopPcs \/ \E b \in Batches : attempts[b] > 0)
       => voting_page_reached /\ form_input_ready
  /\ (pc \in AfterRunPcs /\ ~(voting_page_reached /\ form_input_ready))
       => ret = "F" /\ \A b \in Batches : attempts[b] = 0

\* the voting page was detected but the authorization did not arrive in time
C32_Witness ==
  /\ pc \in AfterRunPcs
  /\ voting_page_reached
  /\ ~form_input_ready
  /\ is_running
  /\ ret = "F"

\* ---------------------------------------------------------------------------
\* Properties of the process-all-batches mode

\* C33: a pending completion check does not stay pending for ever without
\* progress: after a batch was handed over, eventually a further batch is
\* handed over or the check has ended with the completion report
C33_CompletionCheckEnds ==
  \A k \in 0..(MaxInvocations * MaxLoopBatches) :
    (check_timer /\ handed = k) ~> (handed > k \/ completion_reported)

\* ---------------------------------------------------------------------------
\* Properties of run_automation

\* C34: when run_automation has returned, however its try block was left,
\* there is no driver any more, and a driver that was created has been quit
\* exactly once
C34_DriverQuitOnEveryExit ==
  run_pc = "returned" =>
    /\ run_driver = "none"
    /\ run_step > 0 => quit_calls = 1
    /\ quit_calls <= 1

\* an exception left the batch processing and the session was quit
C34_Witness ==
  /\ run_pc = "returned"
  /\ run_exit = "exception"
  /\ run_step = Len(ModeSteps(run_mode))
  /\ quit_calls = 1
  /\ run_ret = "F"

\* ---------------------------------------------------------------------------
\* Properties of the batch handed to the filler

\* C35: a batch in the filler has at most 10 sets, and a fill that returns
\* True has left out no set of the batch
C35_SuccessfulFillEntersEverySet ==
  /\ fillPc # "idle" => num_sets <= 10
  /\ (fillPc = "returned" /\ fill_result) => ~sets_skipped

\* C36: a checkbox that is not already checked is clicked natively, then
\* by script, then after a wait for clickability, in that order, going on
\* to the next method whenever the previous one left the checkbox
\* unselected; the result is True exactly when the checkbox ends up
\* selected and False otherwise
C36_ClickFallsThroughMethods ==
  /\ IsPrefix(click_methods, ClickOrder)
  /\ cb_pc \in {"clicked", "returned"} /\ checkbox # "None" =>
       /\ click_success \in {"True", "False"}
       /\ click_success = "True" <=> cb_selected
       /\ ~cb_selected => click_methods = ClickOrder

\* C37: the lookup tries the name attribute, the three CSS selectors and
\* then a scan for names containing the pattern, in that order, and a cell
\* fails for want of its checkbox only when all of them found nothing,
\* after the page was diagnosed
C37_CellFailsAfterAllLookups ==
  /\ IsPrefix(lookups, LookupOrder \o <<"substring">>)
  /\ cb_pc = "returned" /\ checkbox = "None" =>
       /\ cell_result = "False"
       /\ diagnosed
       /\ lookups = LookupOrder \o <<"substring">>
       /\ dom_name # "found" /\ \A i \in 1..3 : dom_css[i] # "found"
       /\ ~dom_similar

\* C38: the popup suppression finishes within its budget of about 2.5
\* seconds (one step of half a second over it at most), and no dismissal
\* (alert, close button, Escape key, overlay hiding) is begun once the
\* budget has pop_elapsed
C38_PopupSuppressionTimeBoxed ==
  /\ late_actions = {}
  /\ pop_pc = "done" => pop_elapsed <= BudgetTicks + 1

\* the actions whose replay failed, by being optional or not
FailedAt(optional) ==
  {i \in 1..Len(results) :
     results[i] = "failed" /\ play_actions[i].optional = optional}

\* C39: a failed required action ends the replay at once with False and
\* no later action is performed; a failed optional action is counted as
\* skipped and the replay goes on with the next action; no action is
\* performed more often than its retry_count
C39_RequiredStopsOptionalSkips ==
  /\ play_pc \in {"attempt", "judge"} =>
       tries <= play_actions[play_i].retry_count
  /\ \A i \in FailedAt(FALSE) :
       /\ i = Len(results)
       /\ play_pc \in {"judge", "returned"}
       /\ play_pc = "returned" => play_ret = "False"
  /\ play_pc \in {"next", "attempt", "returned"} =>
       execution_stats["skipped_actions"] = Cardinality(FailedAt(TRUE))
  /\ (play_pc = "returned" /\ FailedAt(FALSE) = {}) =>
       /\ play_ret = "True"
       /\ Len(results) = Len(play_actions)

\* a replay that skipped a failed optional action, went on and then ended
\* at a failed required action after all its attempts
C39_Witness ==
  /\ play_pc = "returned"
  /\ play_ret = "False"
  /\ results = <<"failed", "failed">>
  /\ play_actions[1].optional
  /\ ~play_actions[2].optional
  /\ play_actions[2].retry_count = MaxRetryCount
  /\ tries = MaxRetryCount
  /\ execution_stats["skipped_actions"] = 1

====
